---- MODULE Spec2Model ----
(***************************************************************************)
(* Asset resolution engine of vite-wp-bundler: the in-process memo, the    *)
(* on-disk cache (cache-manager), the registration scanner, the source     *)
(* locator and the library classifier.                                     *)
(*                                                                         *)
(* Strings that the code takes apart are modelled by their parts:          *)
(*   - a relative path is [dirs, name]: the directory segments (split on   *)
(*     '/') and the file name split on '.';                                *)
(*   - a hook name is the sequence of its characters, so that              *)
(*     String.includes is a computed substring test;                       *)
(*   - a build folder is [slash, segs]: a leading '/' and the segments.    *)
(***************************************************************************)
EXTENDS Naturals, Integers, Sequences, FiniteSets, TLC

VARIABLES
  phpFiles,      \* registration file name -> "absent" | "unreadable" | content id
  sourceTree,    \* set of indices of FileUniverse: the files present in the theme
  themeDirs,     \* set of build directories present in the theme
  cacheFile,     \* .cache/assets-cache.json: [kind: absent|unreadable|garbage|json]
  now,           \* the last value new Date() gave (saveCachedAssets reads the clock)
  cachedAssets,  \* module-level memo of the detector (null = NoValue)
  pc,            \* position of the running detectAssetsFromWordPress call
  persistentCache, oldBuildFolder,   \* locals of the call (line 514)
  allPhpContent, \* local: the contents read, in file order (line 523)
  result,        \* local: categorizeAssets' result (line 725)
  returned,      \* what the call returned: [kind: none|value|rejected, value]
  warnings,      \* console.warn lines of the current call
  steps,         \* the tiers the current call went through, in order
  lastSaved,     \* the last saveCachedAssets that wrote: [assets, php]
  edits,         \* number of changes made by other processes so far
  entry,         \* what the current call met at its entry: [memo, php, cache, saved]
  readFiles,     \* the registration files as the read loop of the call met them
  scanTree,      \* [tree]: the source tree as the scan of the call met it
  assetFolders,  \* PATHS.assetFolders, fixed when the configuration module loads
  probe,         \* one call of a function of the engine: its arguments and result
  muPlugins,     \* wp-content/mu-plugins: [dir, file, gitignore, others]
  devServer,     \* the dev-server process: its phase and module-level flags
  themeVersion   \* the minor number of "Version:" in the theme's style.css

vars == <<phpFiles, sourceTree, themeDirs, cacheFile, now,
          cachedAssets, pc, persistentCache, oldBuildFolder, allPhpContent,
          result, returned, warnings, steps, lastSaved, edits, entry,
          readFiles, scanTree, assetFolders,
          probe, muPlugins, devServer, themeVersion>>

\* The state of the detector module and of the files it works on
detectorVars ==
  <<phpFiles, sourceTree, themeDirs, cacheFile, now,
    cachedAssets, pc, persistentCache, oldBuildFolder, allPhpContent,
    result, returned, warnings, steps, lastSaved, edits, entry,
    readFiles, scanTree, assetFolders>>

\* What no step of detectAssetsFromWordPress touches
nonDetectorVars == <<probe, muPlugins, devServer, themeVersion>>

\* JavaScript null / undefined
NoValue == [null |-> TRUE]

\* ------------------------------------------------------------------------
\* Bounds of the model
\* ------------------------------------------------------------------------
MaxEdits == 2
MaxClock == 1

\* ------------------------------------------------------------------------
\* Sequence and string helpers
\* ------------------------------------------------------------------------
RECURSIVE FlattenSeq(_)
FlattenSeq(ss) == IF ss = <<>> THEN <<>> ELSE Head(ss) \o FlattenSeq(Tail(ss))

Range(s) == {s[i] : i \in DOMAIN s}

Last(s) == s[Len(s)]

Front(s) == SubSeq(s, 1, Len(s) - 1)

\* Array.prototype.includes
Includes(arr, x) == \E i \in DOMAIN arr : arr[i] = x

\* String.prototype.includes on character sequences
StrIncludes(s, needle) ==
  \E i \in 0..(Len(s) - Len(needle)) :
    \A j \in 1..Len(needle) : s[i + j] = needle[j]

IsPrefixOf(p, s) == Len(p) <= Len(s) /\ SubSeq(s, 1, Len(p)) = p

\* ------------------------------------------------------------------------
\* Configuration (paths.config.js)
\* ------------------------------------------------------------------------
\* PHP_FILES_TO_SCAN, here the two-file form of the documented example
PHP_FILES_TO_SCAN == <<"functions.php", "inc/enqueue.php">>

BuildFolder(slash, segs) == [slash |-> slash, segs |-> segs]

\* The values detectAssetFolders can give PATHS.assetFolders: the conventions
\* (js/scss/css/dist), and a theme whose scripts and plain stylesheets share
\* one folder, so that two source roots coincide. publicDir is never set
\* (undefined, modelled as the empty path, which is falsy as well).
AssetFolderConfigs ==
  { [js |-> <<"js">>, scss |-> <<"scss">>, css |-> <<"css">>,
     publicDir |-> <<>>, dist |-> BuildFolder(FALSE, <<"dist">>)],
    [js |-> <<"src">>, scss |-> <<"scss">>, css |-> <<"src">>,
     publicDir |-> <<>>, dist |-> BuildFolder(FALSE, <<"optimised">>)] }

\* ------------------------------------------------------------------------
\* The theme's files
\* ------------------------------------------------------------------------
Path(d, n) == [dirs |-> d, name |-> n]

\* What extractSignature and isLibrary can see of a file's content:
\*   head    - what the first 2000 bytes look like to isLibrary
\*   strs, nums, apis     - tokens the JS extraction collects
\*   sels, strs, dims     - tokens the CSS extraction collects
Content(readable, head, strs, nums, apis, sels, dims) ==
  [readable |-> readable, head |-> head, strs |-> strs, nums |-> nums,
   apis |-> apis, sels |-> sels, dims |-> dims]

\* Every file the theme may hold, in directory-enumeration order.
FileUniverse ==
  << [path |-> Path(<<"js">>, <<"main", "js">>),
      content |-> Content(TRUE, "plain", {"click", "open"}, {"300"}, {"fetch"}, {}, {})],
     [path |-> Path(<<"js", "blocks">>, <<"hero", "js">>),
      content |-> Content(TRUE, "plain", {"hero"}, {"1"}, {"querySelector"}, {}, {})],
     [path |-> Path(<<"js", "lib">>, <<"swiper", "js">>),
      content |-> Content(TRUE, "banner", {"swiper"}, {"8"}, {"setTimeout"}, {}, {})],
     [path |-> Path(<<"js", "legacy">>, <<"hero", "js">>),
      content |-> Content(FALSE, "plain", {}, {}, {}, {}, {})],
     [path |-> Path(<<"scss", "components">>, <<"card", "scss">>),
      content |-> Content(TRUE, "plain", {"Inter"}, {}, {}, {".card", ".card-title"}, {"12px", "1rem"})],
     [path |-> Path(<<"css", "components">>, <<"card", "css">>),
      content |-> Content(TRUE, "plain", {"Arial"}, {}, {}, {".old"}, {"3px"})],
     [path |-> Path(<<"scss">>, <<"style", "scss">>),
      content |-> Content(TRUE, "plain", {}, {}, {}, {"body"}, {"0"})],
     [path |-> Path(<<"src">>, <<"main", "js">>),
      content |-> Content(TRUE, "plain", {"click"}, {"300"}, {"fetch"}, {}, {})],
     [path |-> Path(<<"optimised", "css", "components">>, <<"card", "min", "css">>),
      content |-> Content(TRUE, "long", {"Inter"}, {}, {}, {".card", ".card-title"}, {"12px", "1rem"})],
     [path |-> Path(<<"optimised", "js">>, <<"hero", "min", "js">>),
      content |-> Content(TRUE, "long", {"hero"}, {"1"}, {"querySelector"}, {}, {})],
     \* compiled scripts whose text gives tokens of some kinds only, each
     \* with the source it was compiled from
     [path |-> Path(<<"optimised", "js">>, <<"empty", "min", "js">>),
      content |-> Content(TRUE, "long", {}, {}, {}, {}, {})],
     [path |-> Path(<<"js">>, <<"empty", "js">>),
      content |-> Content(TRUE, "plain", {}, {}, {}, {}, {})],
     [path |-> Path(<<"optimised", "js">>, <<"count", "min", "js">>),
      content |-> Content(TRUE, "long", {}, {"42"}, {}, {}, {})],
     [path |-> Path(<<"js">>, <<"count", "js">>),
      content |-> Content(TRUE, "plain", {}, {"42"}, {}, {}, {})],
     [path |-> Path(<<"optimised", "js">>, <<"label", "min", "js">>),
      content |-> Content(TRUE, "long", {"label"}, {}, {}, {}, {})],
     [path |-> Path(<<"js">>, <<"label", "js">>),
      content |-> Content(TRUE, "plain", {"label"}, {}, {}, {}, {})],
     [path |-> Path(<<"optimised", "js">>, <<"timer", "min", "js">>),
      content |-> Content(TRUE, "long", {}, {}, {"setInterval"}, {}, {})],
     [path |-> Path(<<"js">>, <<"timer", "js">>),
      content |-> Content(TRUE, "plain", {}, {}, {"setInterval"}, {}, {})],
     \* a compiled stylesheet with dimensions only, and its source
     [path |-> Path(<<"optimised", "css">>, <<"grid", "min", "css">>),
      content |-> Content(TRUE, "long", {}, {}, {}, {}, {"4px"})],
     [path |-> Path(<<"scss">>, <<"grid", "scss">>),
      content |-> Content(TRUE, "plain", {}, {}, {}, {}, {"4px"})],
     \* files for the classifier: banners under several names, minified
     \* names without a banner, files that cannot be read
     [path |-> Path(<<"css">>, <<"style", "css">>),
      content |-> Content(TRUE, "banner", {}, {}, {}, {"body"}, {})],
     [path |-> Path(<<"js">>, <<"main", "min", "js">>),
      content |-> Content(TRUE, "banner", {"click"}, {}, {}, {}, {})],
     [path |-> Path(<<"js", "lib">>, <<"slick", "min", "js">>),
      content |-> Content(TRUE, "plain", {"slick"}, {}, {}, {}, {})],
     [path |-> Path(<<"js">>, <<"editor", "min", "js">>),
      content |-> Content(TRUE, "plain", {"editor"}, {}, {}, {}, {})],
     [path |-> Path(<<"js", "lib">>, <<"locked", "min", "js">>),
      content |-> Content(FALSE, "banner", {}, {}, {}, {}, {})],
     [path |-> Path(<<"js">>, <<"admin", "min", "js">>),
      content |-> Content(FALSE, "plain", {}, {}, {}, {}, {})],
     [path |-> Path(<<"js">>, <<"app", "js">>),
      content |-> Content(TRUE, "dense", {"app"}, {}, {}, {}, {})],
     \* a stylesheet compiled from the css source of the card, not from
     \* the scss file of the same name
     [path |-> Path(<<"dist", "css", "components">>, <<"card", "min", "css">>),
      content |-> Content(TRUE, "long", {"Arial"}, {}, {}, {".old"}, {"3px"})],
     \* a compiled stylesheet that shares one dimension with the css source
     \* of the card and nothing with the scss one
     [path |-> Path(<<"build", "css", "components">>, <<"card", "min", "css">>),
      content |-> Content(TRUE, "long", {"Roboto"}, {}, {}, {".new"}, {"3px"})],
     \* a minified file named like a source that cannot be read
     [path |-> Path(<<"js", "blocks">>, <<"editor", "min", "js">>),
      content |-> Content(FALSE, "plain", {}, {}, {}, {}, {})] >>

\* The states of the source tree the model moves between.
SourceTrees ==
  { {1, 2, 3, 4, 5, 6, 7, 9, 10},
    {5, 7, 8, 9},
    {} }

ExistingFiles(tree) == {FileUniverse[i].path : i \in tree}

\* existsSync(resolve(PATHS.themePath, p))
ExistsSync(tree, p) == p \in ExistingFiles(tree)

FileContent(tree, p) ==
  FileUniverse[CHOOSE i \in tree : FileUniverse[i].path = p].content

\* ------------------------------------------------------------------------
\* Base utilities (wordpress-assets-detector.plugin.js)
\* ------------------------------------------------------------------------
\* fileName.replace(/\.min\.(js|css)$/, '.$1')
StripMinMarker(n) ==
  IF Len(n) >= 3 /\ n[Len(n) - 1] = "min" /\ Last(n) \in {"js", "css"}
  THEN SubSeq(n, 1, Len(n) - 2) \o <<Last(n)>>
  ELSE n

\* name.replace(/\.(js|css|scss)$/, '')
StripSourceExt(n) ==
  IF Len(n) >= 2 /\ Last(n) \in {"js", "css", "scss"} THEN Front(n) ELSE n

getBaseName(filePath) == StripSourceExt(StripMinMarker(filePath.name))

\* fileName.endsWith('.js') || fileName.endsWith('.min.js')
EndsWithJs(n) == Len(n) >= 2 /\ Last(n) = "js"

Extensions(isJs) == IF isJs THEN <<"js">> ELSE <<"scss", "css">>

\* [...].filter(Boolean)
FilterBoolean(arr) == SelectSeq(arr, LAMBDA x : x # <<>>)

IgnoreDirs == {"node_modules", "vendor", ".git", ".vite"}

\* Files under dir with one of the extensions, as relative paths, in
\* enumeration order; an ignored name anywhere below dir prunes the walk.
findFilesRecursive(tree, dir, extensions) ==
  LET Wanted(i) ==
        LET p == FileUniverse[i].path IN
          /\ i \in tree
          /\ IsPrefixOf(dir, p.dirs)
          /\ \A k \in (Len(dir) + 1)..Len(p.dirs) : p.dirs[k] \notin IgnoreDirs
          /\ Len(p.name) >= 2
          /\ Includes(extensions, Last(p.name))
      idx == SelectSeq([i \in 1..Len(FileUniverse) |-> i], Wanted)
  IN [k \in 1..Len(idx) |-> FileUniverse[idx[k]].path]

\* ------------------------------------------------------------------------
\* Signature matching
\* ------------------------------------------------------------------------
extractSignature(code, isJs) ==
  IF isJs
  THEN [strings |-> code.strs, numbers |-> code.nums, selectors |-> {}, apis |-> code.apis]
  ELSE [strings |-> code.strs, numbers |-> code.dims, selectors |-> code.sels, apis |-> {}]

\* A score is the exact rational n/d.
Ratio(n, d) == [n |-> n, d |-> d]

RatioGreater(a, b) == a.n * b.d > b.n * a.d

\* score >= 0.3
ReachesThreshold(a) == 10 * a.n >= 3 * a.d

\* compareArrays: |intersection| / |union|, 0 when both are empty
compareArrays(arr1, arr2) ==
  IF arr1 = {} /\ arr2 = {} THEN Ratio(0, 1)
  ELSE Ratio(Cardinality(arr1 \cap arr2), Cardinality(arr1 \cup arr2))

\* weightedSum / totalWeight, with the weights in tenths: strings 0.4,
\* numbers 0.2, selectors or apis 0.3
WeightedMean(stringSim, numberSim, third) ==
  Ratio(4 * stringSim.n * numberSim.d * third.d
          + 2 * numberSim.n * stringSim.d * third.d
          + 3 * third.n * stringSim.d * numberSim.d,
        (4 + 2 + 3) * stringSim.d * numberSim.d * third.d)

calculateSimilarity(sig1, sig2) ==
  WeightedMean(compareArrays(sig1.strings, sig2.strings),
               compareArrays(sig1.numbers, sig2.numbers),
               IF sig1.selectors # {}
               THEN compareArrays(sig1.selectors, sig2.selectors)
               ELSE compareArrays(sig1.apis, sig2.apis))

\* if (score > bestScore) { bestScore = score; bestMatch = candidate; }
KeepBest(best, candidate, score) ==
  IF RatioGreater(score, best.score)
  THEN [match |-> candidate, score |-> score]
  ELSE best

\* The loop of findBySignature over the candidates, keeping the strictly best.
RECURSIVE BestCandidate(_, _, _, _, _)
BestCandidate(tree, minifiedSig, isJs, candidates, best) ==
  IF candidates = <<>> THEN best
  ELSE BestCandidate(tree, minifiedSig, isJs, Tail(candidates),
         IF ~ExistsSync(tree, Head(candidates)) THEN best
         ELSE KeepBest(best, Head(candidates),
                calculateSimilarity(minifiedSig,
                  extractSignature(FileContent(tree, Head(candidates)), isJs))))

\* return bestScore >= 0.3 ? bestMatch : null
AboveThreshold(best) ==
  IF ReachesThreshold(best.score) THEN best.match ELSE NoValue

\* A read that throws (of the artifact, or of a candidate reached by the
\* loop) lands in the catch and gives null.
findBySignature(tree, minifiedPath, candidates) ==
  IF ~ExistsSync(tree, minifiedPath) THEN NoValue
  ELSE IF ~FileContent(tree, minifiedPath).readable THEN NoValue
  ELSE IF \E i \in DOMAIN candidates :
            ExistsSync(tree, candidates[i]) /\ ~FileContent(tree, candidates[i]).readable
       THEN NoValue
  ELSE AboveThreshold(
         BestCandidate(tree,
           extractSignature(FileContent(tree, minifiedPath), EndsWithJs(minifiedPath.name)),
           EndsWithJs(minifiedPath.name), candidates,
           [match |-> NoValue, score |-> Ratio(0, 1)]))

\* ------------------------------------------------------------------------
\* Source lookup
\* ------------------------------------------------------------------------
BuildPatterns ==
  {"dist", "build", "optimised", "optimized", "compiled", "bundle", "public",
   "assets", "output"}

\* path.startsWith(pattern + '/') strips that first segment
removeBuildPrefix(path) ==
  IF path.dirs # <<>> /\ Head(path.dirs) \in BuildPatterns
  THEN Path(Tail(path.dirs), path.name)
  ELSE path

\* pathParts without a leading 'js' or 'css' segment
DirStructure(pathParts) ==
  IF pathParts # <<>> /\ Head(pathParts) \in {"js", "css"}
  THEN Tail(pathParts) ELSE pathParts

\* The two nested loops: each source folder, each extension, kept when the
\* file exists
PreservedCandidates(tree, sourceFolders, dirStructure, baseName, extensions) ==
  SelectSeq([k \in 1..(Len(sourceFolders) * Len(extensions)) |->
               Path(sourceFolders[((k - 1) \div Len(extensions)) + 1] \o dirStructure,
                    baseName \o <<extensions[((k - 1) % Len(extensions)) + 1]>>)],
            LAMBDA c : ExistsSync(tree, c))

\* Candidates in the order of the two nested loops; empty stands for null.
PreservedFor(tree, folders, pathWithoutBuild) ==
  PreservedCandidates(tree,
    FilterBoolean(<<folders.js, folders.scss, folders.css, folders.publicDir>>),
    DirStructure(pathWithoutBuild.dirs),
    getBaseName(pathWithoutBuild),
    Extensions(EndsWithJs(pathWithoutBuild.name)))

searchWithPreservedPath(tree, folders, minifiedPath) ==
  PreservedFor(tree, folders, removeBuildPrefix(minifiedPath))

\* The files of each folder whose base name is the wanted one
NamedCandidates(tree, foldersToSearch, baseName, extensions) ==
  FlattenSeq([k \in 1..Len(foldersToSearch) |->
                SelectSeq(findFilesRecursive(tree, foldersToSearch[k], extensions),
                          LAMBDA file : getBaseName(file) = baseName)])

NamedFor(tree, folders, pathWithoutBuild) ==
  NamedCandidates(tree,
    FilterBoolean(<<folders.js, folders.css, folders.scss>>),
    getBaseName(pathWithoutBuild),
    Extensions(EndsWithJs(pathWithoutBuild.name)))

searchByFilename(tree, folders, minifiedPath) ==
  NamedFor(tree, folders, removeBuildPrefix(minifiedPath))

\* A choice that ignores the matcher
MatchOrFirstAlwaysFirst(bestMatch, candidates) == candidates[1]

\* if (bestMatch) return bestMatch; return candidates[0]
MatchOrFirst(bestMatch, candidates) ==
  IF bestMatch # NoValue THEN bestMatch ELSE candidates[1]

\* One candidate: take it. Several: the matcher's winner, else the first.
PickCandidate(tree, minifiedPath, candidates) ==
  IF Len(candidates) = 1 THEN candidates[1]
  ELSE MatchOrFirst(findBySignature(tree, minifiedPath, candidates), candidates)

\* A lookup that prefers the candidates by name whenever there is one
PickFromByNameFirst(tree, minifiedPath, preserved, byName) ==
  IF Len(byName) >= 1 THEN PickCandidate(tree, minifiedPath, byName)
  ELSE IF Len(preserved) >= 1 THEN PickCandidate(tree, minifiedPath, preserved)
  ELSE NoValue

\* The preserved-path candidates first, the candidates by name only when
\* there is none
PickFrom(tree, minifiedPath, preserved, byName) ==
  IF Len(preserved) >= 1 THEN PickCandidate(tree, minifiedPath, preserved)
  ELSE IF Len(byName) >= 1 THEN PickCandidate(tree, minifiedPath, byName)
  ELSE NoValue

findSourceFile(tree, folders, minifiedPath) ==
  PickFrom(tree, minifiedPath,
           searchWithPreservedPath(tree, folders, minifiedPath),
           searchByFilename(tree, folders, minifiedPath))

\* The functions findSourceFile calls, in the order it calls them, for the
\* candidates the two searches give
SearchesRun(preserved, byName) ==
  IF Len(preserved) = 1 THEN <<"searchWithPreservedPath">>
  ELSE IF Len(preserved) > 1 THEN <<"searchWithPreservedPath", "findBySignature">>
  ELSE IF Len(byName) > 1
       THEN <<"searchWithPreservedPath", "searchByFilename", "findBySignature">>
  ELSE <<"searchWithPreservedPath", "searchByFilename">>

findSourceFileCalls(tree, folders, minifiedPath) ==
  SearchesRun(searchWithPreservedPath(tree, folders, minifiedPath),
              searchByFilename(tree, folders, minifiedPath))

\* ------------------------------------------------------------------------
\* Library classifier
\* ------------------------------------------------------------------------
\* filePath.includes('.min.')
HasMinMarker(filePath) ==
  \E i \in 2..(Len(filePath.name) - 1) : filePath.name[i] = "min"

\* filePath.includes(s) for a word s; no segment of the model's vocabulary
\* holds one of the tested words as a proper substring.
PathIncludes(filePath, s) ==
  \/ \E i \in DOMAIN filePath.dirs : filePath.dirs[i] = s
  \/ \E i \in DOMAIN filePath.name : filePath.name[i] = s

\* filePath.split('/').pop().replace(/\.min\.(js|css)$/, '')
LibBaseName(filePath) ==
  LET n == filePath.name IN
    IF Len(n) >= 3 /\ n[Len(n) - 1] = "min" /\ Last(n) \in {"js", "css"}
    THEN SubSeq(n, 1, Len(n) - 2)
    ELSE n

KNOWN_SOURCES == {<<"main">>, <<"style">>, <<"admin">>, <<"editor">>}

\* A classifier that trusts a minified name before it looks at the content
LooksLikeLibraryByName(filePath, content) ==
  IF HasMinMarker(filePath) THEN LibBaseName(filePath) \notin KNOWN_SOURCES
  ELSE content.readable /\ content.head \in {"banner", "long", "dense"}

\* The tests of isLibrary on what was read, then on the file name
LooksLikeLibrary(filePath, content) ==
  IF ~content.readable
  THEN \* catch (err)
       HasMinMarker(filePath)
         /\ ~\E s \in {"main", "style", "admin"} : PathIncludes(filePath, s)
  ELSE IF content.head \in {"banner", "long", "dense"} THEN TRUE
  ELSE IF HasMinMarker(filePath)
       THEN LibBaseName(filePath) \notin KNOWN_SOURCES
       ELSE FALSE

isLibrary(tree, filePath) ==
  IF ~ExistsSync(tree, filePath) THEN FALSE
  ELSE LooksLikeLibrary(filePath, FileContent(tree, filePath))

\* A split that files every asset under sources and the libraries under
\* libs as well
SplitLibsKeepAll(tree, all) ==
  [sources |-> all,
   libs    |-> SelectSeq(all, LAMBDA a : isLibrary(tree, a))]

\* The scripts, then the styles, each put in libs or in sources, order kept
SplitLibs(tree, all) ==
  [sources |-> SelectSeq(all, LAMBDA a : ~isLibrary(tree, a)),
   libs    |-> SelectSeq(all, LAMBDA a : isLibrary(tree, a))]

\* One context of categorizeAssets
CategorizeContext(tree, ctx) == SplitLibs(tree, ctx.scripts \o ctx.styles)

categorizeAssets(tree, assets) ==
  [front  |-> CategorizeContext(tree, assets.front),
   admin  |-> CategorizeContext(tree, assets.admin),
   editor |-> CategorizeContext(tree, assets.editor),
   buildFolder |-> assets.buildFolder]

\* The literal returned when no file is found and from the catch block
EmptyResult ==
  [front  |-> [sources |-> <<>>, libs |-> <<>>],
   admin  |-> [sources |-> <<>>, libs |-> <<>>],
   editor |-> [sources |-> <<>>, libs |-> <<>>],
   buildFolder |-> BuildFolder(FALSE, <<"dist">>)]

\* ------------------------------------------------------------------------
\* Registration files: what the scanner's regular expressions can see
\* ------------------------------------------------------------------------
\* A url expression is a sequence of tokens joined by the '.' operator:
\* a quoted literal (a path fragment), a constant name, a $variable, or a
\* function call such as get_template_directory_uri().
Lit(d, n)  == [t |-> "lit",   name |-> "",   dirs |-> d,    fname |-> n]
Const(nm)  == [t |-> "const", name |-> nm,   dirs |-> <<>>, fname |-> <<>>]
Var(nm)    == [t |-> "var",   name |-> nm,   dirs |-> <<>>, fname |-> <<>>]
Call(nm)   == [t |-> "call",  name |-> nm,   dirs |-> <<>>, fname |-> <<>>]
\* an expression that is one unquoted string, such as a path resolved before
Text(d, n) == [t |-> "text",  name |-> "",   dirs |-> d,    fname |-> n]

\* define('NAME', <prefix> . '<lead>seg/seg<trail>'); viaTemplateDir says the
\* prefix is get_template_directory() or get_template_directory_uri().
Define(nm, viaTemplateDir, lead, segs, trail) ==
  [name |-> nm, viaTemplateDir |-> viaTemplateDir, lead |-> lead,
   segs |-> segs, trail |-> trail]

Assign(nm, segs) == [name |-> nm, segs |-> segs]

Enqueue(kind, url) == [kind |-> kind, url |-> url]

Block(hook, calls) == [hook |-> hook, calls |-> calls]

PhpText(defines, assigns, blocks, editorStyles) ==
  [defines |-> defines, assigns |-> assigns, blocks |-> blocks,
   editorStyles |-> editorStyles]

NeedleFront ==
  <<"w", "p", "_", "e", "n", "q", "u", "e", "u", "e", "_", "s", "c", "r", "i", "p", "t", "s">>
NeedleEditor ==
  <<"e", "n", "q", "u", "e", "u", "e", "_", "b", "l", "o", "c", "k", "_", "e", "d", "i", "t", "o", "r", "_", "a", "s", "s", "e", "t", "s">>
NeedleBlock ==
  <<"e", "n", "q", "u", "e", "u", "e", "_", "b", "l", "o", "c", "k", "_", "a", "s", "s", "e", "t", "s">>
NeedleAdmin ==
  <<"a", "d", "m", "i", "n">>
NeedleLogin ==
  <<"l", "o", "g", "i", "n">>
NeedleCustomizer ==
  <<"c", "u", "s", "t", "o", "m", "i", "z", "e", "_", "r", "e", "g", "i", "s", "t", "e", "r">>

\* Hook names used by the registration files of the model
HookFront == NeedleFront
HookEditor == NeedleEditor
HookBlock == NeedleBlock
HookAdmin == NeedleAdmin \o <<"_", "e", "n", "q", "u", "e", "u", "e", "_", "s", "c", "r", "i", "p", "t", "s">>
HookLogin == NeedleLogin \o <<"_", "e", "n", "q", "u", "e", "u", "e", "_", "s", "c", "r", "i", "p", "t", "s">>
HookCustomizer == NeedleCustomizer
HookInit == <<"i", "n", "i", "t">>
HookAdminFront == NeedleAdmin \o <<"_">> \o NeedleFront

MainMinJs == <<"main", "min", "js">>
CardMinCss == <<"card", "min", "css">>
HeroMinJs == <<"hero", "min", "js">>

\* The registration-file contents of the model, by content id.
PhpTexts ==
  [A |-> PhpText(
      <<Define("OPTI_PATH_URI", TRUE, TRUE, <<"optimised">>, TRUE)>>,
      <<>>,
      <<Block(HookFront,
          <<Enqueue("script", <<Const("OPTI_PATH_URI"), Lit(<<"js">>, MainMinJs)>>),
            Enqueue("style", <<Const("OPTI_PATH_URI"), Lit(<<"css", "components">>, CardMinCss)>>)>>),
        Block(HookAdmin,
          <<Enqueue("script", <<Const("OPTI_PATH_URI"), Lit(<<"js">>, <<"admin", "min", "js">>)>>),
            Enqueue("script", <<Const("OPTI_PATH_URI"), Lit(<<"js">>, MainMinJs)>>)>>)>>,
      <<>>),
   B |-> PhpText(
      <<>>,
      <<>>,
      <<Block(HookBlock,
          <<Enqueue("script", <<Lit(<<"optimised", "js">>, HeroMinJs)>>)>>),
        Block(HookEditor,
          <<Enqueue("style", <<Lit(<<"optimised", "css", "components">>, CardMinCss)>>)>>),
        Block(HookInit,
          <<Enqueue("script", <<Lit(<<"https:", "", "cdn.example">>, <<"lib", "js">>)>>),
            Enqueue("script", <<Lit(<<"optimised", "js", "lib">>, <<"swiper", "min", "js">>)>>)>>),
        Block(HookLogin,
          <<Enqueue("style", <<Lit(<<"optimised", "css">>, <<"login", "min", "css">>)>>)>>)>>,
      <<<<Lit(<<"optimised", "css">>, <<"style", "min", "css">>)>>>>),
   C |-> PhpText(
      <<Define("OPTI_PATH", FALSE, TRUE, <<"build", "assets">>, FALSE)>>,
      <<Assign("dir", <<"blocks">>)>>,
      <<Block(HookCustomizer,
          <<Enqueue("script", <<Lit(<<"optimised", "js">>, <<>>), Var("dir"), Lit(<<>>, HeroMinJs)>>)>>),
        Block(HookAdminFront,
          <<Enqueue("script", <<Lit(<<"optimised", "js">>, MainMinJs)>>)>>),
        Block(HookFront,
          <<Enqueue("style", <<Call("get_template_directory_uri"), Lit(<<"css">>, <<"style", "min", "css">>)>>),
            Enqueue("script", <<Lit(<<"optimised", "css", "components">>, CardMinCss)>>),
            Enqueue("style", <<Lit(<<"optimised", "css", "components">>, CardMinCss)>>)>>)>>,
      <<>>)]

ContentIds == DOMAIN PhpTexts

\* allPhpContent: the found files' texts appended in configuration order
MergeTexts(ids) ==
  PhpText(FlattenSeq([i \in DOMAIN ids |-> PhpTexts[ids[i]].defines]),
          FlattenSeq([i \in DOMAIN ids |-> PhpTexts[ids[i]].assigns]),
          FlattenSeq([i \in DOMAIN ids |-> PhpTexts[ids[i]].blocks]),
          FlattenSeq([i \in DOMAIN ids |-> PhpTexts[ids[i]].editorStyles]))

\* ------------------------------------------------------------------------
\* PHP parsing
\* ------------------------------------------------------------------------
\* defineRegex wants the template-directory prefix and a non-empty literal
DefineMatches(d) == d.viaTemplateDir /\ (d.lead \/ d.trail \/ d.segs # <<>>)

\* Later definitions overwrite earlier ones; the value has its leading and
\* trailing '/' removed.
parsePhpConstants(phpContent) ==
  LET defs  == SelectSeq(phpContent.defines, DefineMatches)
      names == {defs[i].name : i \in DOMAIN defs}
      LastOf(nm) == CHOOSE i \in DOMAIN defs :
                      /\ defs[i].name = nm
                      /\ \A j \in DOMAIN defs : defs[j].name = nm => j <= i
  IN [nm \in names |-> defs[LastOf(nm)].segs]

\* varRegex.exec once per name: the first assignment of that variable
parsePhpVariables(phpContent, variablesToFind) ==
  LET as == phpContent.assigns
      found == {nm \in variablesToFind : \E i \in DOMAIN as : as[i].name = nm}
      FirstOf(nm) == CHOOSE i \in DOMAIN as :
                       /\ as[i].name = nm
                       /\ \A j \in DOMAIN as : as[j].name = nm => i <= j
  IN [nm \in found |-> as[FirstOf(nm)].segs]

extractVariablesFromUrl(urlPattern) ==
  {urlPattern[i].name : i \in {k \in DOMAIN urlPattern : urlPattern[k].t = "var"}}

\* What the capture group of scriptRegex / styleRegex / editorStyleRegex /
\* allEnqueueRegex holds of a url expression: the group cannot cross a ')',
\* so it ends with the opening parenthesis of the first function call.
CapturedArgument(url) ==
  IF \E i \in DOMAIN url : url[i].t = "call"
  THEN SubSeq(url, 1, CHOOSE i \in DOMAIN url :
                        url[i].t = "call" /\ \A j \in 1..(i - 1) : url[j].t # "call")
  ELSE url

\* ' or " around a substituted value
Quote == "'"

RECURSIVE Quotes(_)
Quotes(n) == IF n = 0 THEN "" ELSE Quote \o Quotes(n - 1)

\* One '/'- or '.'-separated piece of a string: its word and the quote
\* characters in front of it and behind it
Piece(w, l, r) == [w |-> w, l |-> l, r |-> r]

Render(x) == Quotes(x.l) \o x.w \o Quotes(x.r)

\* The words a substitution can have left between quotes
ValueWords(constants, variables) ==
  {""} \cup UNION {Range(constants[c]) : c \in DOMAIN constants}
       \cup UNION {Range(variables[v]) : v \in DOMAIN variables}

\* Reads a piece back from its text
Decode(s, words) ==
  IF \E w \in words : s = Quote \o w \o Quote
  THEN Piece(CHOOSE w \in words : s = Quote \o w \o Quote, 1, 1)
  ELSE IF \E w \in words : s = Quote \o w
  THEN Piece(CHOOSE w \in words : s = Quote \o w, 1, 0)
  ELSE IF \E w \in words : s = w \o Quote
  THEN Piece(CHOOSE w \in words : s = w \o Quote, 0, 1)
  ELSE Piece(s, 0, 0)

\* 'value' in the place of the piece x
QuotedValue(x, value) ==
  IF Len(value) <= 1
  THEN <<Piece(IF value = <<>> THEN "" ELSE value[1], x.l + 1, x.r + 1)>>
  ELSE <<Piece(value[1], x.l + 1, 0)>>
         \o [k \in 1..(Len(value) - 2) |-> Piece(value[k + 1], 0, 0)]
         \o <<Piece(value[Len(value)], 0, x.r + 1)>>

\* new RegExp(`\\b${constantName}\\b`, 'g') and new RegExp(`\\$${varName}\\b`,
\* 'g') on one piece: a word that names a constant, or $name of a variable,
\* becomes the quoted value
SubstitutePiece(x, constants, variables) ==
  IF x.w \in DOMAIN constants THEN QuotedValue(x, constants[x.w])
  ELSE IF \E v \in DOMAIN variables : x.w = "$" \o v
  THEN QuotedValue(x, variables[CHOOSE v \in DOMAIN variables : x.w = "$" \o v])
  ELSE <<x>>

SubstitutePieces(segs, constants, variables) ==
  FlattenSeq([i \in DOMAIN segs |->
    SubstitutePiece(Decode(segs[i], ValueWords(constants, variables)),
                    constants, variables)])

\* .replace(/^['"]|['"]$/g, ''): one quote less at each end of the string
StripEnds(pieces) ==
  [i \in DOMAIN pieces |->
     Piece(pieces[i].w,
           IF i = 1 /\ pieces[i].l > 0 THEN pieces[i].l - 1 ELSE pieces[i].l,
           IF i = Len(pieces) /\ pieces[i].r > 0 THEN pieces[i].r - 1 ELSE pieces[i].r)]

RenderAll(pieces) == [i \in DOMAIN pieces |-> Render(pieces[i])]

\* The substituted text of a quoted literal: its own quotes are the ones
\* at the ends
SubstituteIn(segs, constants, variables) ==
  RenderAll(SubstitutePieces(segs, constants, variables))

\* The substituted text of an expression that is one unquoted string, split
\* again into directories and the n pieces of the file name
SubstituteText(dirs, fname, constants, variables) ==
  LET ds == SubstitutePieces(dirs, constants, variables)
      all == StripEnds(ds \o SubstitutePieces(fname, constants, variables))
  IN [dirs  |-> RenderAll(SubSeq(all, 1, Len(ds))),
      fname |-> RenderAll(SubSeq(all, Len(ds) + 1, Len(all)))]

\* The text one token leaves in the resolved string
Fragment(tok, constants, variables) ==
  CASE tok.t = "lit"   -> [dirs  |-> SubstituteIn(tok.dirs, constants, variables),
                           fname |-> SubstituteIn(tok.fname, constants, variables)]
    [] tok.t = "text"  -> SubstituteText(tok.dirs, tok.fname, constants, variables)
    [] tok.t = "const" -> IF tok.name \in DOMAIN constants
                          THEN [dirs |-> constants[tok.name], fname |-> <<>>]
                          ELSE [dirs |-> <<tok.name>>, fname |-> <<>>]
    [] tok.t = "var"   -> IF tok.name \in DOMAIN variables
                          THEN [dirs |-> variables[tok.name], fname |-> <<>>]
                          ELSE [dirs |-> <<"$" \o tok.name>>, fname |-> <<>>]
    [] tok.t = "call"  -> [dirs |-> <<>>, fname |-> <<tok.name>>]

\* A join that puts every fragment under the theme folder
JoinFragmentUnderTheme(frag, rest, last) ==
  Path(<<"theme">> \o frag.dirs \o rest.dirs, IF last THEN frag.fname ELSE rest.name)

\* The fragment of the first token put in front of the rest of the path
JoinFragment(frag, rest, last) ==
  Path(frag.dirs \o rest.dirs, IF last THEN frag.fname ELSE rest.name)

\* Substitute constants and variables, then drop the concatenation
\* operators: the fragments are joined into one path.
RECURSIVE resolvePhpUrl(_, _, _)
resolvePhpUrl(urlPattern, constants, variables) ==
  IF urlPattern = <<>> THEN Path(<<>>, <<>>)
  ELSE JoinFragment(Fragment(Head(urlPattern), constants, variables),
                    resolvePhpUrl(Tail(urlPattern), constants, variables),
                    Tail(urlPattern) = <<>>)

\* scriptPath.startsWith('http')
StartsWithHttp(path) ==
  path.dirs # <<>> /\ Head(path.dirs) \in {"http:", "https:"}

\* The group ([^'"]+) followed by '/' in the build-folder expression: the
\* literal up to its last '/', which must not be its first character.
FolderCapture(d) ==
  IF d.trail /\ d.segs # <<>> THEN BuildFolder(d.lead, d.segs)
  ELSE IF ~d.trail /\ Len(d.segs) >= 2 THEN BuildFolder(d.lead, Front(d.segs))
  ELSE NoValue

\* String.match without the g flag: the first define of OPTI_PATH or
\* OPTI_PATH_URI that the expression matches; else PATHS.assetFolders.dist.
detectBuildFolder(phpContent, folders) ==
  LET ds == SelectSeq(phpContent.defines,
                      LAMBDA d : d.name \in {"OPTI_PATH", "OPTI_PATH_URI"}
                                 /\ FolderCapture(d) # NoValue)
  IN IF ds # <<>> THEN FolderCapture(ds[1]) ELSE folders.dist

\* ------------------------------------------------------------------------
\* The scan of detectAssetsFromWordPress
\* ------------------------------------------------------------------------
Warning(kind, subject) == [kind |-> kind, subject |-> subject]

\* if (!arr.includes(p)) arr.push(p)
PushUnique(arr, p) == IF Includes(arr, p) THEN arr ELSE Append(arr, p)

Place(assets, context, field, p) ==
  [assets EXCEPT ![context][field] = PushUnique(@, p)]

\* A chain that tests the admin words before anything else
placeByHookAdminFirst(assets, hook, field, p) ==
  IF \/ StrIncludes(hook, NeedleAdmin)
     \/ StrIncludes(hook, NeedleLogin)
     \/ StrIncludes(hook, NeedleCustomizer)
  THEN Place(assets, "admin", field, p)
  ELSE IF StrIncludes(hook, NeedleFront) THEN Place(assets, "front", field, p)
  ELSE IF StrIncludes(hook, NeedleEditor) THEN Place(assets, "editor", field, p)
  ELSE IF StrIncludes(hook, NeedleBlock)
       THEN Place(Place(assets, "front", field, p), "editor", field, p)
  ELSE Place(assets, "admin", field, p)

\* The if / else-if chain on the hook name
placeByHook(assets, hook, field, p) ==
  IF StrIncludes(hook, NeedleFront) THEN Place(assets, "front", field, p)
  ELSE IF StrIncludes(hook, NeedleEditor) THEN Place(assets, "editor", field, p)
  ELSE IF StrIncludes(hook, NeedleBlock)
       THEN Place(Place(assets, "front", field, p), "editor", field, p)
  ELSE IF \/ StrIncludes(hook, NeedleAdmin)
          \/ StrIncludes(hook, NeedleLogin)
          \/ StrIncludes(hook, NeedleCustomizer)
       THEN Place(assets, "admin", field, p)
  ELSE Place(assets, "admin", field, p)

\* The calls of one kind that a block pass meets, block after block
CallsOfKind(phpContent, kind) ==
  LET InBlock(b) ==
        LET cs == SelectSeq(b.calls, LAMBDA c : c.kind = kind)
        IN [i \in DOMAIN cs |-> [form |-> kind, hook |-> b.hook, url |-> cs[i].url]]
  IN FlattenSeq([k \in DOMAIN phpContent.blocks |-> InBlock(phpContent.blocks[k])])

\* Every call the scan handles, in the order it handles them: the script
\* pass, the style pass, then add_editor_style.
RegistrationCalls(phpContent) ==
  CallsOfKind(phpContent, "script")
    \o CallsOfKind(phpContent, "style")
    \o [i \in DOMAIN phpContent.editorStyles |->
          [form |-> "editor", hook |-> <<>>, url |-> phpContent.editorStyles[i]]]

\* A warning that is not repeated for a path already reported
WarnUnresolvedOnce(warns, path) ==
  PushUnique(warns, Warning("source_not_found", path))

\* console.warn('Source introuvable pour: ...')
WarnUnresolved(warns, path) ==
  Append(warns, Warning("source_not_found", path))

\* The path the scan resolves for a call
ResolvedPath(call, constants, variables) ==
  resolvePhpUrl(CapturedArgument(call.url), constants, variables)

\* What one call does once its path is resolved and its source looked up
PlaceCall(acc, call, path, sourcePath) ==
  IF sourcePath = NoValue
  THEN [acc EXCEPT !.warnings = WarnUnresolved(@, path)]
  ELSE IF call.form = "editor"
       THEN [acc EXCEPT !.assets = Place(@, "editor", "styles", sourcePath)]
  ELSE [acc EXCEPT !.assets =
          placeByHook(@, call.hook,
                      IF call.form = "script" THEN "scripts" ELSE "styles",
                      sourcePath)]

\* external URLs are skipped before the source lookup
LookUpAndPlace(tree, folders, acc, call, path) ==
  IF StartsWithHttp(path) THEN acc
  ELSE PlaceCall(acc, call, path, findSourceFile(tree, folders, path))

\* The body of the three inner loops for one call
ProcessCall(tree, folders, constants, variables, acc, call) ==
  LookUpAndPlace(tree, folders, acc, call, ResolvedPath(call, constants, variables))

RECURSIVE ProcessCalls(_, _, _, _, _, _)
ProcessCalls(tree, folders, constants, variables, acc, calls) ==
  IF calls = <<>> THEN acc
  ELSE ProcessCalls(tree, folders, constants, variables,
                    ProcessCall(tree, folders, constants, variables, acc, Head(calls)),
                    Tail(calls))

\* The variables named in any enqueue call (allEnqueueRegex)
EnqueueVariables(phpContent) ==
  UNION {extractVariablesFromUrl(CapturedArgument(c.url)) :
           c \in UNION {Range(b.calls) : b \in Range(phpContent.blocks)}}

\* The empty assets object with the detected build folder
EmptyAssets(buildFolder) ==
  [front  |-> [scripts |-> <<>>, styles |-> <<>>],
   admin  |-> [scripts |-> <<>>, styles |-> <<>>],
   editor |-> [scripts |-> <<>>, styles |-> <<>>],
   buildFolder |-> buildFolder]

\* categorizeAssets on what the passes collected, with their warnings
Categorized(tree, acc) ==
  [result |-> categorizeAssets(tree, acc.assets), warnings |-> acc.warnings]

\* The scan of the merged text
ScanText(tree, folders, functionsContent) ==
  Categorized(tree,
    ProcessCalls(tree, folders,
                 parsePhpConstants(functionsContent),
                 parsePhpVariables(functionsContent,
                                   EnqueueVariables(functionsContent)),
                 [assets |-> EmptyAssets(detectBuildFolder(functionsContent, folders)),
                  warnings |-> <<>>],
                 RegistrationCalls(functionsContent)))

\* From the contents read to categorizeAssets' result, with the warnings
ScanPhp(tree, folders, ids) == ScanText(tree, folders, MergeTexts(ids))

\* ------------------------------------------------------------------------
\* Cache manager (cache-manager.plugin.js)
\* ------------------------------------------------------------------------
\* createHash('md5').update(x).digest('hex'), taken as collision free
Md5(x) == <<"md5", x>>

\* readFileSync of a file that exists but cannot be read throws, and
\* calculatePhpFilesHash has no try around it
HashThrows(php) ==
  \E i \in DOMAIN PHP_FILES_TO_SCAN : php[PHP_FILES_TO_SCAN[i]] = "unreadable"

\* A hash that also covers the files of the source tree
calculatePhpFilesHashWithSources(php) ==
  LET present == SelectSeq(PHP_FILES_TO_SCAN, LAMBDA f : php[f] # "absent")
  IN Md5(<<[i \in DOMAIN present |-> <<present[i], Md5(php[present[i]])>>],
           sourceTree>>)

\* The hash of the "name:md5(content)" tags of the files that exist
calculatePhpFilesHash(php) ==
  LET present == SelectSeq(PHP_FILES_TO_SCAN, LAMBDA f : php[f] # "absent")
  IN Md5([i \in DOMAIN present |-> <<present[i], Md5(php[present[i]])>>])

AbsentFile     == [kind |-> "absent", value |-> NoValue]
UnreadableFile == [kind |-> "unreadable", value |-> NoValue]
GarbageFile    == [kind |-> "garbage", value |-> NoValue]
\* A write that leaves an empty document
JsonFileEmpty(data) == [kind |-> "json", value |-> NoValue]

\* JSON.stringify(data, null, 2) written to the file
JsonFile(data) == [kind |-> "json", value |-> data]

\* null when the file is missing, and from the catch when reading or
\* JSON.parse throws
readCache(file) == IF file.kind = "json" THEN file.value ELSE NoValue

ReadCacheWarns(file) == file.kind \in {"unreadable", "garbage"}

\* A lookup that trusts the persisted entry without comparing the hashes
getCachedAssetsAnyHash(php, file) ==
  LET cache == readCache(file)
  IN IF cache = NoValue
     THEN [assets |-> NoValue, oldBuildFolder |-> NoValue]
     ELSE [assets |-> cache.assets, oldBuildFolder |-> NoValue]

\* A lookup that takes every persisted entry for an outdated one
getCachedAssetsAlwaysStale(php, file) ==
  LET cache == readCache(file)
  IN IF cache = NoValue
     THEN [assets |-> NoValue, oldBuildFolder |-> NoValue]
     ELSE [assets |-> NoValue, oldBuildFolder |-> cache.assets.buildFolder]

getCachedAssets(php, file) ==
  LET currentHash == calculatePhpFilesHash(php)
      cache == readCache(file)
  IN IF cache = NoValue
     THEN [assets |-> NoValue, oldBuildFolder |-> NoValue]
     ELSE IF cache.hash # currentHash
          THEN [assets |-> NoValue, oldBuildFolder |-> cache.assets.buildFolder]
     ELSE [assets |-> cache.assets, oldBuildFolder |-> NoValue]

\* An entry whose hash also covers the time of the save
CacheEntryStamped(php, assets, time) ==
  [hash |-> Md5(<<calculatePhpFilesHash(php), time>>), timestamp |-> time,
   assets |-> assets]

\* cacheData of saveCachedAssets
CacheEntry(php, assets, time) ==
  [hash |-> calculatePhpFilesHash(php), timestamp |-> time, assets |-> assets]

\* oldBuildFolder.replace(/^\//, '')
CleanFolder(folder) == folder.segs

\* The files that rmSync(oldBuildPath, {recursive: true}) takes with it
FilesUnder(tree, dir) == {i \in tree : IsPrefixOf(dir, FileUniverse[i].path.dirs)}

\* ------------------------------------------------------------------------
\* State machine
\* ------------------------------------------------------------------------
\* What each registration file can be: missing, present but not readable
\* (EACCES), or one of the contents
PhpStates(f) ==
  {"absent", "unreadable"}
    \cup (IF f = "functions.php" THEN {"A", "C"} ELSE {"B"})

NotReturned == [kind |-> "none", value |-> NoValue]
Rejected    == [kind |-> "rejected", value |-> NoValue]
Value(v)    == [kind |-> "value", value |-> v]

Init ==
  /\ phpFiles \in {[f \in Range(PHP_FILES_TO_SCAN) |->
                     IF f = "functions.php" THEN a ELSE b] :
                   a \in {"A", "absent"}, b \in {"B", "absent"}}
  /\ sourceTree \in SourceTrees \ {{}}
  /\ assetFolders \in AssetFolderConfigs
  /\ themeDirs = {<<"dist">>, <<"optimised">>, <<"build">>}
  /\ cacheFile = AbsentFile
  /\ now = 0
  /\ cachedAssets = NoValue
  /\ pc = "idle"
  /\ persistentCache = NoValue
  /\ oldBuildFolder = NoValue
  /\ allPhpContent = <<>>
  /\ result = NoValue
  /\ returned = NotReturned
  /\ warnings = <<>>
  /\ steps = <<>>
  /\ lastSaved = NoValue
  /\ edits = 0
  /\ entry = NoValue
  /\ readFiles = NoValue
  /\ scanTree = NoValue
  /\ probe = NoValue
  /\ muPlugins = NoValue
  /\ devServer = NoValue
  /\ themeVersion = 0

\* A lookup without the disk tier: an empty memo goes straight to the scan
LookupTierNoDisk(memo, php, file) ==
  IF memo # NoValue THEN "memo"
  ELSE IF HashThrows(php) THEN "throws"
  ELSE "scan"

\* Which tier answers a call: the memo, else the disk cache (whose hash
\* computation may throw, outside the try block), else the scan.
LookupTier(memo, php, file) ==
  IF memo # NoValue THEN "memo"
  ELSE IF HashThrows(php) THEN "throws"
  ELSE IF getCachedAssets(php, file).assets # NoValue THEN "disk"
  ELSE "scan"

\* detectAssetsFromWordPress, from its entry to the end of the two cache
\* tiers. The function has no await: the call runs to its end without any
\* other code of the process in between, other processes may still touch
\* the files between two of its file-system calls.
DetectLookup ==
  /\ UNCHANGED nonDetectorVars
  /\ pc = "idle"
  /\ entry' = [memo |-> cachedAssets, php |-> phpFiles, cache |-> cacheFile,
               saved |-> lastSaved]
  /\ LET tier == LookupTier(cachedAssets, phpFiles, cacheFile) IN
     CASE tier = "memo" ->
          /\ returned' = Value(cachedAssets)
          /\ steps' = <<"memo_hit">>
          /\ pc' = "done"
          /\ UNCHANGED <<cachedAssets, persistentCache, oldBuildFolder, warnings>>
       [] tier = "throws" ->
          /\ returned' = Rejected
          /\ steps' = <<"memo_miss", "hash_throws">>
          /\ pc' = "done"
          /\ UNCHANGED <<cachedAssets, persistentCache, oldBuildFolder, warnings>>
       [] tier \in {"disk", "scan"} ->
          LET got == getCachedAssets(phpFiles, cacheFile) IN
          /\ warnings' = IF ReadCacheWarns(cacheFile)
                         THEN <<Warning("cache_corrupt", "assets-cache.json")>>
                         ELSE <<>>
          /\ persistentCache' = got.assets
          /\ oldBuildFolder' = got.oldBuildFolder
          /\ IF tier = "disk"
             THEN /\ cachedAssets' = got.assets
                  /\ returned' = Value(got.assets)
                  /\ steps' = <<"memo_miss", "disk_hit">>
                  /\ pc' = "done"
             ELSE /\ steps' = <<"memo_miss", "disk_miss">>
                  /\ pc' = "read"
                  /\ UNCHANGED <<cachedAssets, returned>>
  /\ UNCHANGED <<phpFiles, sourceTree, themeDirs, cacheFile, now, allPhpContent,
                 result, lastSaved, edits, readFiles, scanTree, assetFolders>>

\* A read loop that skips missing files silently
MissingWarningsNone(php, n) == <<>>

\* Warnings of the read loop for the configured files of indices 1..n
MissingWarnings(php, n) ==
  LET missing == SelectSeq(SubSeq(PHP_FILES_TO_SCAN, 1, n), LAMBDA f : php[f] = "absent")
  IN [i \in DOMAIN missing |-> Warning("php_file_missing", missing[i])]

\* The loop that reads and merges the registration files, and the early
\* return when none was found.
DetectRead ==
  /\ UNCHANGED nonDetectorVars
  /\ pc = "read"
  /\ readFiles' = phpFiles
  /\ LET n == Len(PHP_FILES_TO_SCAN)
         unreadable == {i \in 1..n : phpFiles[PHP_FILES_TO_SCAN[i]] = "unreadable"}
         found == SelectSeq(PHP_FILES_TO_SCAN, LAMBDA f : phpFiles[f] \in ContentIds)
     IN IF unreadable # {}
        THEN \* readFileSync throws inside the try: the catch block
             LET first == CHOOSE i \in unreadable : \A j \in unreadable : i <= j IN
             /\ warnings' = warnings \o MissingWarnings(phpFiles, first - 1)
                              \o <<Warning("scan_error", PHP_FILES_TO_SCAN[first])>>
             /\ cachedAssets' = EmptyResult
             /\ returned' = Value(EmptyResult)
             /\ steps' = steps \o <<"read", "error">>
             /\ pc' = "done"
             /\ UNCHANGED allPhpContent
        ELSE IF found = <<>>
        THEN /\ warnings' = warnings \o MissingWarnings(phpFiles, n)
                              \o <<Warning("no_php_file", "")>>
             /\ returned' = Value(EmptyResult)
             /\ steps' = steps \o <<"read", "no_files">>
             /\ pc' = "done"
             /\ UNCHANGED <<cachedAssets, allPhpContent>>
        ELSE /\ warnings' = warnings \o MissingWarnings(phpFiles, n)
             /\ allPhpContent' = [i \in DOMAIN found |-> phpFiles[found[i]]]
             /\ steps' = steps \o <<"read">>
             /\ pc' = "scan"
             /\ UNCHANGED <<cachedAssets, returned>>
  /\ UNCHANGED <<phpFiles, sourceTree, themeDirs, cacheFile, now, persistentCache,
                 oldBuildFolder, result, lastSaved, edits, entry, scanTree,
                 assetFolders>>

\* existsSync of a directory of the theme
DirExists(dirs, d) == \E t \in dirs : IsPrefixOf(d, t)

\* The end of the scan: deleteOldBuildFolder when the build folder changed,
\* then cachedAssets = result
FinishScan(res, scanWarnings, dir) ==
  /\ result' = res
  /\ warnings' = warnings \o scanWarnings
  /\ cachedAssets' = res
  /\ IF /\ oldBuildFolder # NoValue
        /\ oldBuildFolder # res.buildFolder
        /\ DirExists(themeDirs, dir)
     THEN \E rmOk \in BOOLEAN :
            IF rmOk
            THEN /\ themeDirs' = {t \in themeDirs : ~IsPrefixOf(dir, t)}
                 /\ sourceTree' = sourceTree \ FilesUnder(sourceTree, dir)
                 /\ steps' = steps \o <<"scan", "delete">>
            ELSE /\ steps' = steps \o <<"scan">>
                 /\ UNCHANGED <<themeDirs, sourceTree>>
     ELSE /\ steps' = steps \o <<"scan">>
          /\ UNCHANGED <<themeDirs, sourceTree>>

ScanOutcome(scan) ==
  FinishScan(scan.result, scan.warnings, CleanFolder(oldBuildFolder))

\* The steps from the constants table to the memo assignment: the three
\* registration passes, categorizeAssets, the removal of the previous build
\* folder, and cachedAssets = result.
DetectScan ==
  /\ UNCHANGED nonDetectorVars
  /\ pc = "scan"
  /\ scanTree' = [tree |-> sourceTree]
  /\ ScanOutcome(ScanPhp(sourceTree, assetFolders, allPhpContent))
  /\ pc' = "save"
  /\ UNCHANGED <<phpFiles, cacheFile, now, persistentCache, oldBuildFolder,
                 allPhpContent, returned, lastSaved, edits, entry, readFiles,
                 assetFolders>>

\* saveCachedAssets(result) and the return; a throw of the hash
\* computation lands in the catch block of the detector.
DetectSave ==
  /\ UNCHANGED nonDetectorVars
  /\ pc = "save"
  /\ IF HashThrows(phpFiles)
     THEN /\ cachedAssets' = EmptyResult
          /\ returned' = Value(EmptyResult)
          /\ warnings' = Append(warnings, Warning("scan_error", "hash"))
          /\ steps' = steps \o <<"save", "error">>
          /\ UNCHANGED <<cacheFile, lastSaved, now>>
     ELSE /\ \E writeOk \in BOOLEAN, time \in now..MaxClock :
               /\ now' = time
               /\ cacheFile' = IF writeOk
                               THEN JsonFile(CacheEntry(phpFiles, result, time))
                               ELSE cacheFile
               /\ warnings' = IF writeOk THEN warnings
                              ELSE Append(warnings, Warning("cache_write_failed", ""))
               /\ lastSaved' = [assets |-> result, php |-> phpFiles, wrote |-> writeOk]
          /\ returned' = Value(result)
          /\ steps' = steps \o <<"save">>
          /\ UNCHANGED cachedAssets
  /\ pc' = "done"
  /\ UNCHANGED <<phpFiles, sourceTree, themeDirs, persistentCache,
                 oldBuildFolder, allPhpContent, result, edits, entry, readFiles,
                 scanTree, assetFolders>>

\* The caller's await gets the outcome; the locals of the call are gone.
Return ==
  /\ UNCHANGED nonDetectorVars
  /\ pc = "done"
  /\ pc' = "idle"
  /\ persistentCache' = NoValue
  /\ oldBuildFolder' = NoValue
  /\ allPhpContent' = <<>>
  /\ result' = NoValue
  /\ returned' = NotReturned
  /\ warnings' = <<>>
  /\ steps' = <<>>
  /\ entry' = NoValue
  /\ readFiles' = NoValue
  /\ scanTree' = NoValue
  /\ UNCHANGED <<phpFiles, sourceTree, themeDirs, cacheFile, now, cachedAssets,
                 lastSaved, edits, assetFolders>>

\* The process ends and a new one starts: the module is loaded again
ProcessRestart ==
  /\ UNCHANGED nonDetectorVars
  /\ pc = "idle"
  /\ cachedAssets # NoValue
  /\ cachedAssets' = NoValue
  /\ UNCHANGED <<phpFiles, sourceTree, themeDirs, cacheFile, now, pc,
                 persistentCache, oldBuildFolder, allPhpContent, result,
                 returned, warnings, steps, lastSaved, edits, entry, readFiles, scanTree,
                 assetFolders>>

\* Another process (an editor, a deployment) rewrites, removes or locks a
\* registration file
EditPhpFile ==
  /\ UNCHANGED nonDetectorVars
  /\ edits < MaxEdits
  /\ \E f \in Range(PHP_FILES_TO_SCAN) : \E s \in PhpStates(f) :
       /\ phpFiles[f] # s
       /\ phpFiles' = [phpFiles EXCEPT ![f] = s]
  /\ edits' = edits + 1
  /\ UNCHANGED <<sourceTree, themeDirs, cacheFile, now, cachedAssets, pc,
                 persistentCache, oldBuildFolder, allPhpContent, result,
                 returned, warnings, steps, lastSaved, entry, readFiles, scanTree,
                 assetFolders>>

BuildDirs == {<<"dist">>, <<"optimised">>, <<"build">>}

\* Source files are added, removed or edited
ChangeSourceTree ==
  /\ UNCHANGED nonDetectorVars
  /\ edits < MaxEdits
  /\ \E t \in SourceTrees :
       /\ t # sourceTree
       /\ sourceTree' = t
       /\ themeDirs' = themeDirs \cup {d \in BuildDirs : FilesUnder(t, d) # {}}
  /\ edits' = edits + 1
  /\ UNCHANGED <<phpFiles, cacheFile, now, cachedAssets, pc, persistentCache,
                 oldBuildFolder, allPhpContent, result, returned, warnings,
                 steps, lastSaved, entry, readFiles, scanTree,
                 assetFolders>>

\* The cache file is removed, locked or overwritten with something that is
\* not JSON
DamageCache ==
  /\ UNCHANGED nonDetectorVars
  /\ edits < MaxEdits
  /\ \E f \in {AbsentFile, UnreadableFile, GarbageFile} :
       /\ cacheFile # f
       /\ cacheFile' = f
  /\ lastSaved' = NoValue
  /\ edits' = edits + 1
  /\ UNCHANGED <<phpFiles, sourceTree, themeDirs, now, cachedAssets, pc,
                 persistentCache, oldBuildFolder, allPhpContent, result,
                 returned, warnings, steps, entry, readFiles, scanTree,
                 assetFolders>>

Next ==
  \/ DetectLookup
  \/ DetectRead
  \/ DetectScan
  \/ DetectSave
  \/ Return
  \/ ProcessRestart
  \/ EditPhpFile
  \/ ChangeSourceTree
  \/ DamageCache

Spec == Init /\ [][Next]_vars

\* ------------------------------------------------------------------------
\* Properties
\* ------------------------------------------------------------------------
\* The current call found the memo empty and could compute the hash
ConsultedDisk == entry # NoValue /\ entry.memo = NoValue /\ ~HashThrows(entry.php)

\* No part of the scan ran in the current call
NothingScanned ==
  /\ readFiles = NoValue
  /\ scanTree = NoValue
  /\ allPhpContent = <<>>
  /\ result = NoValue

\* C1: in every call the memo is consulted first, then the disk cache, and
\* the scan (read loop, source lookup, classification, save) runs only in a
\* call that found the memo empty and missed the disk cache; a call with a
\* memo hit returns the memo, one with a disk hit returns the cached map,
\* and neither runs any scan step.
C1_TiersInOrder ==
  /\ (entry # NoValue /\ entry.memo # NoValue) =>
        /\ pc = "done"
        /\ returned = Value(entry.memo)
        /\ persistentCache = NoValue
        /\ NothingScanned
  /\ (ConsultedDisk /\ getCachedAssets(entry.php, entry.cache).assets # NoValue) =>
        /\ pc = "done"
        /\ returned = Value(getCachedAssets(entry.php, entry.cache).assets)
        /\ NothingScanned
  /\ (pc \in {"read", "scan", "save"} \/ ~NothingScanned) =>
        /\ ConsultedDisk
        /\ getCachedAssets(entry.php, entry.cache).assets = NoValue

\* C1 witness: a call answered by the disk cache, after an earlier call
\* scanned and saved
C1_DiskHitReached ==
  /\ pc = "done"
  /\ ConsultedDisk
  /\ getCachedAssets(entry.php, entry.cache).assets # NoValue
  /\ returned.kind = "value"
  /\ returned.value.front.sources # <<>>

\* C2: getCachedAssets gives a map only when an entry exists whose stored
\* hash equals the freshly computed one; an entry with another hash gives no
\* assets and that entry's buildFolder as oldBuildFolder; on a hit and when
\* there is no entry, oldBuildFolder is null.
C2_CachedOnlyOnEqualHash ==
  ConsultedDisk =>
    LET stored == readCache(entry.cache)
        fresh  == calculatePhpFilesHash(entry.php)
    IN /\ persistentCache # NoValue =>
            /\ stored # NoValue
            /\ stored.hash = fresh
            /\ persistentCache = stored.assets
       /\ (stored # NoValue /\ stored.hash # fresh) =>
            /\ persistentCache = NoValue
            /\ oldBuildFolder = stored.assets.buildFolder
       /\ (persistentCache # NoValue \/ stored = NoValue) =>
            oldBuildFolder = NoValue

\* C2 witness: a lookup that met an entry saved for other file contents
C2_MismatchReached ==
  /\ pc = "read"
  /\ ConsultedDisk
  /\ readCache(entry.cache) # NoValue
  /\ readCache(entry.cache).hash # calculatePhpFilesHash(entry.php)
  /\ oldBuildFolder # NoValue

\* The current call started in a process with an empty memo, after a
\* saveCachedAssets that nothing has undone and with the registration files
\* as they were at that save
FreshCallAfterSave ==
  /\ entry # NoValue
  /\ entry.memo = NoValue
  /\ entry.saved # NoValue
  /\ entry.php = entry.saved.php

ContentDiffers(cur, old) ==
  \E f \in DOMAIN cur :
    /\ cur[f] \in ContentIds
    /\ old[f] \in ContentIds
    /\ cur[f] # old[f]

\* C4: when the content of a registration file differs from what it was
\* when the entry was saved, the fresh hash differs from the stored one,
\* getCachedAssets returns no assets and the call goes on to a full rescan.
C4_ChangedContentRescans ==
  (/\ entry # NoValue
   /\ entry.memo = NoValue
   /\ entry.saved # NoValue
   /\ entry.saved.wrote
   /\ ContentDiffers(entry.php, entry.saved.php)) =>
    /\ returned.kind # "rejected"
    /\ calculatePhpFilesHash(entry.php) # readCache(entry.cache).hash
    /\ persistentCache = NoValue
    /\ pc = "done" => readFiles # NoValue

\* C5: once the memo holds a result, nothing but the end of the process
\* clears or replaces it, and every call that starts returns it.
C5_MemoNeverReplaced ==
  [][cachedAssets # NoValue =>
       /\ (cachedAssets' = cachedAssets \/ ProcessRestart)
       /\ (DetectLookup => returned' = Value(cachedAssets))]_vars

\* C7: no call of detectAssetsFromWordPress rejects.
C7_NeverRejects == returned.kind # "rejected"

\* Number of occurrences of x in the sequence s
Count(s, x) == Cardinality({i \in DOMAIN s : s[i] = x})

Contexts == {"front", "admin", "editor"}

\* The paths a context of an AssetMap holds
Held(map, c) == Range(map[c].sources) \cup Range(map[c].libs)

\* The registration calls of the current call's merged text, each with the
\* path the scan resolves for it
ScannedCalls ==
  LET text  == MergeTexts(allPhpContent)
      calls == RegistrationCalls(text)
      constants == parsePhpConstants(text)
      variables == parsePhpVariables(text, EnqueueVariables(text))
  IN [i \in DOMAIN calls |->
        [form |-> calls[i].form, hook |-> calls[i].hook,
         path |-> ResolvedPath(calls[i], constants, variables)]]

\* No file under a source root has the base name and a source extension
\* of the build path
NoSourceAnywhere(tree, folders, path) ==
  LET base == getBaseName(removeBuildPrefix(path))
      exts == Range(Extensions(EndsWithJs(path.name)))
  IN ~\E i \in tree :
        LET f == FileUniverse[i].path IN
          /\ \E r \in {folders.js, folders.scss, folders.css} : IsPrefixOf(r, f.dirs)
          /\ Len(f.name) >= 2
          /\ Last(f.name) \in exts
          /\ getBaseName(f) = base

\* C6: for every registration call whose resolved local path has no source
\* under any source root, findSourceFile gives the unresolved signal, the
\* path is in no context of the resulting map, and the call leaves exactly
\* one warning naming the path (as many warnings as there are such calls).
C6_UnresolvedExcludedAndWarned ==
  scanTree # NoValue =>
    LET calls == ScannedCalls IN
    \A i \in DOMAIN calls :
      LET p == calls[i].path IN
        (~StartsWithHttp(p) /\ NoSourceAnywhere(scanTree.tree, assetFolders, p)) =>
          /\ findSourceFile(scanTree.tree, assetFolders, p) = NoValue
          /\ \A c \in Contexts : p \notin Held(result, c)
          /\ Count(warnings, Warning("source_not_found", p))
               = Cardinality({j \in DOMAIN calls : calls[j].path = p})

\* C6 witness: a scan in which two calls register the same path and no
\* source of it exists
C6_TwoUnresolvedCalls ==
  /\ scanTree # NoValue
  /\ \E i, j \in DOMAIN ScannedCalls :
       /\ i # j
       /\ ScannedCalls[i].path = ScannedCalls[j].path
       /\ ~StartsWithHttp(ScannedCalls[i].path)
       /\ NoSourceAnywhere(scanTree.tree, assetFolders, ScannedCalls[i].path)
       /\ Count(warnings, Warning("source_not_found", ScannedCalls[i].path)) = 2

\* The literal map of the zero-file return
EmptyMapWithDefaultFolder(map) ==
  /\ \A c \in Contexts : map[c].sources = <<>> /\ map[c].libs = <<>>
  /\ map.buildFolder = BuildFolder(FALSE, <<"dist">>)

\* C8: in the read loop a missing registration file is skipped with one
\* warning and the files after it are still read; when no configured file
\* exists the call returns the empty map with the default build folder and
\* does not reject.
C8_MissingFilesSkipped ==
  readFiles # NoValue =>
    LET n == Len(PHP_FILES_TO_SCAN)
        unreadable == {i \in 1..n : readFiles[PHP_FILES_TO_SCAN[i]] = "unreadable"}
        reached == {i \in 1..n : \A j \in unreadable : i < j}
        existing == SelectSeq(PHP_FILES_TO_SCAN,
                              LAMBDA f : readFiles[f] \notin {"absent", "unreadable"})
    IN /\ \A i \in reached :
            readFiles[PHP_FILES_TO_SCAN[i]] = "absent" =>
              Count(warnings, Warning("php_file_missing", PHP_FILES_TO_SCAN[i])) = 1
       /\ (unreadable = {} /\ existing # <<>>) =>
            /\ allPhpContent = [i \in DOMAIN existing |-> readFiles[existing[i]]]
            /\ returned.kind # "rejected"
       /\ (unreadable = {} /\ existing = <<>>) =>
            /\ pc = "done"
            /\ returned.kind = "value"
            /\ EmptyMapWithDefaultFolder(returned.value)

\* C8 witness: the first configured file is missing and the second one has
\* been read
C8_SkippedThenRead ==
  /\ readFiles # NoValue
  /\ readFiles[PHP_FILES_TO_SCAN[1]] = "absent"
  /\ allPhpContent = <<readFiles[PHP_FILES_TO_SCAN[2]]>>
  /\ Count(warnings, Warning("php_file_missing", PHP_FILES_TO_SCAN[1])) = 1

\* C9: a corrupt or unreadable cache file is handled like a missing one:
\* the lookup raises nothing and gives no assets and no old build folder,
\* the call goes on to the scan, and the scan's result replaces the
\* corrupt entry.
C9_CorruptCacheIsNoCache ==
  (entry # NoValue /\ entry.memo = NoValue /\ ReadCacheWarns(entry.cache)) =>
    /\ returned.kind # "rejected"
    /\ persistentCache = NoValue
    /\ oldBuildFolder = NoValue
    /\ pc = "done" =>
         /\ readFiles # NoValue
         /\ (result # NoValue /\ returned = Value(result)) =>
               /\ cacheFile.kind = "json"
               /\ cacheFile.value.assets = result

\* The rule table on the hook name, first match wins
RuleContexts(hook) ==
  IF StrIncludes(hook, NeedleFront) THEN {"front"}
  ELSE IF StrIncludes(hook, NeedleEditor) THEN {"editor"}
  ELSE IF StrIncludes(hook, NeedleBlock) THEN {"front", "editor"}
  ELSE {"admin"}

\* C10: the contexts that hold a source path are exactly those the rule
\* table gives for the hooks of the registrations resolved to it (and the
\* editor context for add_editor_style); an admin-only hook gives Admin and
\* not Front.
C10_HookDecidesContext ==
  scanTree # NoValue =>
    LET calls == ScannedCalls
        placed == {[source |-> IF StartsWithHttp(calls[i].path) THEN NoValue
                               ELSE findSourceFile(scanTree.tree, assetFolders,
                                                   calls[i].path),
                    contexts |-> IF calls[i].form = "editor" THEN {"editor"}
                                 ELSE RuleContexts(calls[i].hook)] :
                     i \in DOMAIN calls}
    IN \A c \in Contexts :
         Held(result, c) =
           {q.source : q \in {r \in placed : r.source # NoValue /\ c \in r.contexts}}

\* C10 witness: a registration under the hook admin_wp_enqueue_scripts,
\* which holds 'admin' and 'wp_enqueue_scripts', went to Front only, next
\* to one under customize_register that went to Admin
C10_FirstRuleWins ==
  /\ scanTree # NoValue
  /\ \E i \in DOMAIN ScannedCalls : ScannedCalls[i].hook = HookAdminFront
  /\ Path(<<"js">>, <<"main", "js">>) \in Held(result, "front")
  /\ Path(<<"js">>, <<"main", "js">>) \notin Held(result, "admin")
  /\ Path(<<"js", "blocks">>, <<"hero", "js">>) \in Held(result, "admin")

\* The maps the current call holds or has handed out
MapsInHand ==
  {m \in {result, cachedAssets, persistentCache,
          IF returned.kind = "value" THEN returned.value ELSE NoValue,
          IF readCache(cacheFile) # NoValue THEN readCache(cacheFile).assets ELSE NoValue} :
     m # NoValue}

\* C11: in every map that detectAssetsFromWordPress returns (and in the
\* memo, the scan result and the persisted entry it comes from), no path is
\* both in the sources and in the libs of one context.
C11_SourcesAndLibsDisjoint ==
  \A m \in MapsInHand : \A c \in Contexts :
    Range(m[c].sources) \cap Range(m[c].libs) = {}

\* C11 witness: a returned map whose admin context holds a source and a
\* library
C11_SourceNextToLibrary ==
  /\ returned.kind = "value"
  /\ returned.value.admin.sources # <<>>
  /\ returned.value.admin.libs # <<>>

\* s holds no value twice
NoDuplicates(s) == \A i, j \in DOMAIN s : s[i] = s[j] => i = j

\* C12: in the map of a fresh scan, the sources and the libs of each
\* context hold every path at most once, whatever mix of script, style and
\* editor-stylesheet registrations resolves to one source path.
C12_PathsUnique ==
  result # NoValue =>
    \A c \in Contexts :
      NoDuplicates(result[c].sources) /\ NoDuplicates(result[c].libs)

\* ------------------------------------------------------------------------
\* Single calls of the engine's functions
\* ------------------------------------------------------------------------
\* No detection is running and nothing has been cached
DetectorAtRest ==
  /\ phpFiles = [f \in Range(PHP_FILES_TO_SCAN) |-> "absent"]
  /\ themeDirs = {<<"dist">>, <<"optimised">>, <<"build">>}
  /\ cacheFile = AbsentFile
  /\ now = 0
  /\ cachedAssets = NoValue
  /\ pc = "idle"
  /\ persistentCache = NoValue
  /\ oldBuildFolder = NoValue
  /\ allPhpContent = <<>>
  /\ result = NoValue
  /\ returned = NotReturned
  /\ warnings = <<>>
  /\ steps = <<>>
  /\ lastSaved = NoValue
  /\ edits = 0
  /\ entry = NoValue
  /\ readFiles = NoValue
  /\ scanTree = NoValue

\* No dev server has been started
NoDevServer ==
  /\ muPlugins = NoValue
  /\ devServer = NoValue
  /\ themeVersion = 0

\* The files a theme of the locator's calls may hold
LocatorFiles == 1..10 \cup {28, 29}

\* Build paths handed to findSourceFile
BuildPaths ==
  { Path(<<"optimised", "js">>, MainMinJs),
    Path(<<"optimised", "js">>, HeroMinJs),
    Path(<<"optimised", "js", "blocks">>, HeroMinJs),
    Path(<<"optimised", "js", "legacy">>, HeroMinJs),
    Path(<<"optimised", "js", "lib">>, <<"swiper", "min", "js">>),
    Path(<<"optimised", "css", "components">>, CardMinCss),
    Path(<<"dist", "css", "components">>, CardMinCss),
    Path(<<"build", "css", "components">>, CardMinCss),
    Path(<<"optimised", "css">>, <<"style", "min", "css">>) }

LocatorInit ==
  /\ DetectorAtRest
  /\ NoDevServer
  /\ sourceTree \in SUBSET LocatorFiles
  /\ assetFolders \in AssetFolderConfigs
  /\ probe \in {[fn |-> "findSourceFile", path |-> p, done |-> FALSE,
                 out |-> NoValue, calls |-> <<>>] : p \in BuildPaths}

\* findSourceFile(probe.path) in the theme and configuration of the state
CallFindSourceFile ==
  /\ probe.fn = "findSourceFile"
  /\ ~probe.done
  /\ probe' = [probe EXCEPT
                 !.done = TRUE,
                 !.out = findSourceFile(sourceTree, assetFolders, probe.path),
                 !.calls = findSourceFileCalls(sourceTree, assetFolders, probe.path)]
  /\ UNCHANGED <<detectorVars, muPlugins, devServer, themeVersion>>

LocatorNext == CallFindSourceFile

LocatorSpec == LocatorInit /\ [][LocatorNext]_vars

\* The source roots of the structure-preserving search
SourceRoots(folders) ==
  {folders.js, folders.scss, folders.css, folders.publicDir} \ {<<>>}

\* The existing files at the structurally predicted locations of a build
\* path: build prefix and leading js/css segment stripped, directory
\* structure kept, under a source root, with a plausible extension
PredictedFiles(tree, folders, path) ==
  LET stripped == removeBuildPrefix(path)
      dir  == DirStructure(stripped.dirs)
      base == getBaseName(stripped)
      exts == IF EndsWithJs(stripped.name) THEN {"js"} ELSE {"scss", "css"}
  IN {f \in ExistingFiles(tree) :
        \E root \in SourceRoots(folders), ext \in exts :
          f = Path(root \o dir, base \o <<ext>>)}

\* Position of the first occurrence of x in s, 0 when there is none
IndexOf(s, x) ==
  IF Includes(s, x)
  THEN CHOOSE i \in DOMAIN s : s[i] = x /\ \A j \in 1..(i - 1) : s[j] # x
  ELSE 0

\* C13: when a source file exists at a structurally predicted location,
\* findSourceFile gets it from the structure-preserving search, which runs
\* first (before the signature matcher and the search by file name); the
\* search by file name runs only when the structure-preserving search gave
\* no candidate.
C13_PreservedSearchFirst ==
  (probe # NoValue /\ probe.fn = "findSourceFile" /\ probe.done) =>
    LET predicted == PredictedFiles(sourceTree, assetFolders, probe.path)
        preserved == searchWithPreservedPath(sourceTree, assetFolders, probe.path)
    IN /\ probe.calls[1] = "searchWithPreservedPath"
       /\ IndexOf(probe.calls, "searchWithPreservedPath") = 1
       /\ predicted # {} =>
            /\ Range(preserved) = predicted
            /\ probe.out \in predicted
            /\ ~Includes(probe.calls, "searchByFilename")
       /\ Includes(probe.calls, "searchByFilename") => preserved = <<>>

\* C13 witness: a file at the predicted location was returned although the
\* search by name alone would have met another file of that name first
C13_PredictedFileFound ==
  /\ probe # NoValue /\ probe.fn = "findSourceFile" /\ probe.done
  /\ probe.path = Path(<<"optimised", "js", "legacy">>, HeroMinJs)
  /\ probe.out = Path(<<"js", "legacy">>, <<"hero", "js">>)
  /\ searchByFilename(sourceTree, assetFolders, probe.path)[1]
       = Path(<<"js", "blocks">>, <<"hero", "js">>)

\* C14: whenever exactly one source file exists at the predicted locations
\* of a build path, findSourceFile returns it without calling
\* findBySignature, whatever the source roots are (two of them may be the
\* same folder).
C14_SingleFileNoMatcher ==
  (probe # NoValue /\ probe.fn = "findSourceFile" /\ probe.done) =>
    LET predicted == PredictedFiles(sourceTree, assetFolders, probe.path)
    IN Cardinality(predicted) = 1 =>
         /\ probe.out \in predicted
         /\ ~Includes(probe.calls, "findBySignature")

\* The files of the matcher's calls: compiled artifacts and sources
ScriptArtifacts == {10, 11, 13, 15, 17}
ScriptSources == {1, 2, 3, 12, 14, 16, 18}
StyleArtifacts == {9, 19}
StyleSources == {5, 6, 7, 20}

\* Two different candidates of the artifact's kind, in either order
CandidatePairs(sources) ==
  {<<FileUniverse[i].path, FileUniverse[j].path>> :
     <<i, j>> \in {q \in sources \X sources : q[1] # q[2]}}

MatcherInit ==
  /\ DetectorAtRest
  /\ NoDevServer
  /\ sourceTree = ScriptArtifacts \cup ScriptSources \cup StyleArtifacts \cup StyleSources
  /\ assetFolders = CHOOSE f \in AssetFolderConfigs : f.js = <<"js">>
  /\ probe \in
       {[fn |-> "findBySignature", artifact |-> FileUniverse[a].path,
         candidates |-> cs, done |-> FALSE, out |-> NoValue] :
          a \in ScriptArtifacts, cs \in CandidatePairs(ScriptSources)}
       \cup
       {[fn |-> "findBySignature", artifact |-> FileUniverse[a].path,
         candidates |-> cs, done |-> FALSE, out |-> NoValue] :
          a \in StyleArtifacts, cs \in CandidatePairs(StyleSources)}

\* findBySignature(probe.artifact, probe.candidates)
CallFindBySignature ==
  /\ probe.fn = "findBySignature"
  /\ ~probe.done
  /\ probe' = [probe EXCEPT
                 !.done = TRUE,
                 !.out = findBySignature(sourceTree, probe.artifact, probe.candidates)]
  /\ UNCHANGED <<detectorVars, muPlugins, devServer, themeVersion>>

MatcherNext == CallFindBySignature

MatcherSpec == MatcherInit /\ [][MatcherNext]_vars

SignatureFields == {"strings", "numbers", "selectors", "apis"}

\* The signature findBySignature extracts from a file for an artifact
SignatureFor(tree, artifact, file) ==
  extractSignature(FileContent(tree, file), EndsWithJs(artifact.name))

\* C15: of two candidates, one whose signature equals the artifact's in
\* every field and one whose signature shares no token with it,
\* findBySignature returns the first, in either order and whichever fields
\* are empty; each field that is not empty in the artifact and in that
\* candidate scores 1.0.
C15_IdenticalCandidateWins ==
  (probe # NoValue /\ probe.fn = "findBySignature" /\ probe.done) =>
    LET sig == SignatureFor(sourceTree, probe.artifact, probe.artifact)
        Sig(c) == SignatureFor(sourceTree, probe.artifact, c)
    IN \A i, j \in DOMAIN probe.candidates :
         (/\ i # j
          /\ Sig(probe.candidates[i]) = sig
          /\ \A f \in SignatureFields : Sig(probe.candidates[j])[f] \cap sig[f] = {}
          /\ Sig(probe.candidates[j]) # sig) =>
            /\ probe.out = probe.candidates[i]
            /\ \A f \in SignatureFields :
                 sig[f] # {} =>
                   ~RatioGreater(Ratio(1, 1),
                                 compareArrays(sig[f], Sig(probe.candidates[i])[f]))

\* The files of the classifier's calls
ClassifierFiles == {1, 3, 21, 22, 23, 24, 25, 26, 27, 30}

ClassifierInit ==
  /\ DetectorAtRest
  /\ NoDevServer
  /\ sourceTree \in SUBSET ClassifierFiles
  /\ assetFolders = CHOOSE f \in AssetFolderConfigs : f.js = <<"js">>
  /\ probe \in {[fn |-> "isLibrary", path |-> FileUniverse[i].path,
                 done |-> FALSE, out |-> FALSE] : i \in ClassifierFiles}

\* isLibrary(probe.path)
CallIsLibrary ==
  /\ probe.fn = "isLibrary"
  /\ ~probe.done
  /\ probe' = [probe EXCEPT !.done = TRUE,
                            !.out = isLibrary(sourceTree, probe.path)]
  /\ UNCHANGED <<detectorVars, muPlugins, devServer, themeVersion>>

ClassifierNext == CallIsLibrary

ClassifierSpec == ClassifierInit /\ [][ClassifierNext]_vars

\* C16: isLibrary answers Library for every file that exists, can be read
\* and starts with a license / preserve / version / name banner, whatever
\* its name is.
C16_BannerIsLibrary ==
  (probe # NoValue /\ probe.fn = "isLibrary" /\ probe.done) =>
    ((/\ ExistsSync(sourceTree, probe.path)
      /\ FileContent(sourceTree, probe.path).readable
      /\ FileContent(sourceTree, probe.path).head = "banner") =>
        probe.out = TRUE)

\* C16 witness: a banner file named main.min.js, which the file-name rule
\* alone would call a source, is classified as a library
C16_BannerUnderSourceName ==
  /\ probe # NoValue /\ probe.fn = "isLibrary" /\ probe.done
  /\ probe.path = Path(<<"js">>, <<"main", "min", "js">>)
  /\ ExistsSync(sourceTree, probe.path)
  /\ FileContent(sourceTree, probe.path).head = "banner"
  /\ probe.out = TRUE

\* The resolved string handed to resolvePhpUrl again as an expression
AsExpression(path) == <<Text(path.dirs, path.name)>>

\* define() calls a registration file of the resolver's calls may hold, in
\* the order of the file
ResolverDefines ==
  << Define("OPTI_PATH_URI", TRUE, TRUE, <<"optimised">>, TRUE),
     Define("dist", TRUE, TRUE, <<"dist">>, FALSE),
     Define("assets", TRUE, TRUE, <<"assets", "js">>, FALSE),
     Define("OPTI_PATH", FALSE, TRUE, <<"build", "assets">>, FALSE),
     Define("OPTI_PATH_URI", TRUE, TRUE, <<"dist">>, FALSE) >>

\* The sequence s without the elements whose index is not in keep
Subsequence(s, keep) ==
  LET idx == SelectSeq([i \in DOMAIN s |-> i], LAMBDA i : i \in keep)
  IN [k \in DOMAIN idx |-> s[idx[k]]]

\* Raw url expressions handed to resolvePhpUrl
ResolverExpressions ==
  { <<Const("OPTI_PATH_URI"), Lit(<<"js">>, MainMinJs)>>,
    <<Const("dist"), Lit(<<"js">>, MainMinJs)>>,
    <<Const("assets"), Lit(<<>>, MainMinJs)>>,
    <<Lit(<<"optimised", "js">>, <<>>), Var("dir"), Lit(<<>>, HeroMinJs)>>,
    <<Lit(<<"dist", "css">>, <<"style", "min", "css">>)>>,
    <<Const("THEME_ASSETS"), Lit(<<"css", "components">>, CardMinCss)>>,
    <<Call("get_template_directory_uri")>>,
    <<Lit(<<"https:", "", "cdn.example">>, <<"lib", "js">>)>> }

ResolverInit ==
  /\ DetectorAtRest
  /\ NoDevServer
  /\ sourceTree = {}
  /\ assetFolders = CHOOSE f \in AssetFolderConfigs : f.js = <<"js">>
  /\ probe \in
       {[fn |-> "resolvePhpUrl", url |-> e,
         text |-> PhpText(Subsequence(ResolverDefines, keep), as, <<>>, <<>>),
         done |-> FALSE, once |-> NoValue, twice |-> NoValue] :
          e \in ResolverExpressions,
          keep \in SUBSET DOMAIN ResolverDefines,
          as \in {<<>>, <<Assign("dir", <<"blocks">>)>>}}

\* The expression resolved, and the result resolved again, with one pair
\* of tables
ResolveTwice(urlPattern, constants, variables) ==
  [once  |-> resolvePhpUrl(urlPattern, constants, variables),
   twice |-> resolvePhpUrl(
               AsExpression(resolvePhpUrl(urlPattern, constants, variables)),
               constants, variables)]

\* The tables the scan builds for an expression of a text
TablesFor(phpContent, urlPattern) ==
  [constants |-> parsePhpConstants(phpContent),
   variables |-> parsePhpVariables(phpContent, extractVariablesFromUrl(urlPattern))]

\* resolvePhpUrl(probe.url, C, V), then resolvePhpUrl of what it returned
CallResolvePhpUrl ==
  /\ probe.fn = "resolvePhpUrl"
  /\ ~probe.done
  /\ LET tables == TablesFor(probe.text, probe.url)
         both == ResolveTwice(probe.url, tables.constants, tables.variables)
     IN probe' = [probe EXCEPT !.done = TRUE, !.once = both.once,
                               !.twice = both.twice]
  /\ UNCHANGED <<detectorVars, muPlugins, devServer, themeVersion>>

ResolverNext == CallResolvePhpUrl

ResolverSpec == ResolverInit /\ [][ResolverNext]_vars

\* The pieces of a resolved path, in the order of the string
PiecesOf(path, constants, variables) ==
  [i \in 1..(Len(path.dirs) + Len(path.name)) |->
     Decode(IF i <= Len(path.dirs) THEN path.dirs[i] ELSE path.name[i - Len(path.dirs)],
            ValueWords(constants, variables))]

\* The resolved string holds no name of the constants table as a whole
\* word, no $name of the variables table, and no quote at its ends
PlainPath(path, constants, variables) ==
  LET ps == PiecesOf(path, constants, variables) IN
    /\ \A i \in DOMAIN ps :
         /\ ps[i].w \notin DOMAIN constants
         /\ \A v \in DOMAIN variables : ps[i].w # "$" \o v
    /\ ps # <<>> => ps[1].l = 0 /\ ps[Len(ps)].r = 0

\* C17 as stated: for every raw expression and every pair of extracted
\* tables, resolving the resolved string again gives the same string.
C17_IdempotentAsStated ==
  (probe # NoValue /\ probe.fn = "resolvePhpUrl" /\ probe.done) =>
    probe.twice = probe.once

\* C17, amended: resolving again changes nothing when the resolved string
\* holds no constant name as a whole word, no $variable of the table and no
\* quote character at its ends.
C17_IdempotentOnPlainPaths ==
  (probe # NoValue /\ probe.fn = "resolvePhpUrl" /\ probe.done) =>
    LET tables == TablesFor(probe.text, probe.url) IN
      PlainPath(probe.once, tables.constants, tables.variables) =>
        probe.twice = probe.once

\* C17 witness: an expression in which a constant and a variable were
\* substituted, resolved twice to the same path
C17_SubstitutedAndStable ==
  /\ probe # NoValue /\ probe.fn = "resolvePhpUrl" /\ probe.done
  /\ "OPTI_PATH_URI" \in DOMAIN parsePhpConstants(probe.text)
  /\ probe.url = <<Const("OPTI_PATH_URI"), Lit(<<"js">>, MainMinJs)>>
  /\ probe.once = Path(<<"optimised", "js">>, MainMinJs)
  /\ probe.twice = probe.once

\* ------------------------------------------------------------------------
\* The dev server's mu-plugin: generation at start-up, cleanup at the end
\* of the process

\* Number of times Vite resolves its configuration in one process
MaxResolves == 2

\* States of wp-content/mu-plugins: the directory, vite-dev-mode.php, its
\* .gitignore and any other entry of the directory
MuPluginStates ==
  {m \in [dir : BOOLEAN, file : BOOLEAN, gitignore : BOOLEAN,
          others : BOOLEAN] :
     (m.file \/ m.gitignore \/ m.others) => m.dir}

\* The file-system call of deleteMuPlugin that throws, if any
FsFailures == {"none", "unlinkFile", "unlinkGitignore", "rmdir"}

\* deleteMuPlugin() without the directory check
deleteMuPluginKeepDir(mp, fail) ==
  IF ~mp.file \/ fail = "unlinkFile" THEN mp
  ELSE IF mp.gitignore /\ fail = "unlinkGitignore"
       THEN [mp EXCEPT !.file = FALSE]
  ELSE [mp EXCEPT !.file = FALSE, !.gitignore = FALSE]

\* deleteMuPlugin(): the state of mu-plugins it leaves; an exception of a
\* file-system call ends it silently
deleteMuPlugin(mp, fail) ==
  IF ~mp.file \/ fail = "unlinkFile" THEN mp
  ELSE IF mp.gitignore /\ fail = "unlinkGitignore"
       THEN [mp EXCEPT !.file = FALSE]
  ELSE IF mp.dir /\ ~mp.others /\ fail # "rmdir"
       THEN [mp EXCEPT !.file = FALSE, !.gitignore = FALSE, !.dir = FALSE]
  ELSE [mp EXCEPT !.file = FALSE, !.gitignore = FALSE]

\* Whether a file-system call of deleteMuPlugin threw
Threw(mp, fail) ==
  /\ mp.file
  /\ \/ fail = "unlinkFile"
     \/ fail = "unlinkGitignore" /\ mp.gitignore
     \/ fail = "rmdir" /\ ~mp.others

\* cleanupOnClose(): incrementThemeVersion() once per process when
\* AUTO_INCREMENT_VERSION is set, then deleteMuPlugin()
cleanupOnClose(fail, phase, sig) ==
  /\ themeVersion' = IF devServer.autoIncrement /\ ~devServer.versionIncremented
                     THEN themeVersion + 1 ELSE themeVersion
  /\ muPlugins' = deleteMuPlugin(muPlugins, fail)
  /\ devServer' =
       [devServer EXCEPT
          !.phase = phase,
          !.signal = sig,
          !.versionIncremented = @ \/ devServer.autoIncrement,
          !.runs = @ + 1,
          !.threw = @ \/ Threw(muPlugins, fail),
          !.first = IF devServer.runs = 0
                    THEN [before |-> muPlugins,
                          after |-> deleteMuPlugin(muPlugins, fail),
                          threw |-> Threw(muPlugins, fail)]
                    ELSE @]

CleanupInit ==
  /\ DetectorAtRest
  /\ sourceTree = {}
  /\ assetFolders = CHOOSE f \in AssetFolderConfigs : f.js = <<"js">>
  /\ probe = NoValue
  /\ muPlugins \in MuPluginStates
  /\ themeVersion = 0
  /\ devServer \in [phase : {"starting"}, signalsRegistered : {FALSE},
                    versionIncremented : {FALSE}, autoIncrement : BOOLEAN,
                    resolved : {0}, listeners : {0}, signal : {"none"},
                    runs : {0}, threw : {FALSE}, first : {NoValue}]

\* A configResolved that registers the handlers at every call
ConfigResolvedEveryTime ==
  /\ devServer.phase \in {"starting", "serving"}
  /\ devServer.resolved < MaxResolves
  /\ devServer' = [devServer EXCEPT
                     !.resolved = @ + 1,
                     !.signalsRegistered = TRUE,
                     !.listeners = @ + 1]
  /\ UNCHANGED <<detectorVars, probe, muPlugins, themeVersion>>

\* configResolved of the cleanup plugin: the handlers of SIGINT, SIGTERM
\* and exit are registered the first time only
ConfigResolved ==
  /\ devServer.phase \in {"starting", "serving"}
  /\ devServer.resolved < MaxResolves
  /\ devServer' = [devServer EXCEPT
                     !.resolved = @ + 1,
                     !.signalsRegistered = TRUE,
                     !.listeners = IF devServer.signalsRegistered
                                   THEN @ ELSE @ + 1]
  /\ UNCHANGED <<detectorVars, probe, muPlugins, themeVersion>>

\* buildStart of the generator plugin in dev mode: vite-dev-mode.php and
\* its .gitignore are written, the directory is created when missing
BuildStart ==
  /\ devServer.phase \in {"starting", "serving"}
  /\ devServer.resolved > 0
  /\ muPlugins' = [muPlugins EXCEPT !.dir = TRUE, !.file = TRUE,
                                    !.gitignore = TRUE]
  /\ devServer' = [devServer EXCEPT !.phase = "serving"]
  /\ UNCHANGED <<detectorVars, probe, themeVersion>>

\* The generated plugin, run by a WordPress request that finds the dev
\* server silent, removes itself and then the directory when it is empty
SelfDelete ==
  /\ devServer.phase = "serving"
  /\ muPlugins.file
  /\ muPlugins' = IF muPlugins.gitignore \/ muPlugins.others
                  THEN [muPlugins EXCEPT !.file = FALSE]
                  ELSE [muPlugins EXCEPT !.file = FALSE, !.dir = FALSE]
  /\ UNCHANGED <<detectorVars, probe, devServer, themeVersion>>

\* The handler of SIGINT and of SIGTERM: cleanupOnClose(), then
\* process.exit(0), which emits exit
Signal ==
  \E sig \in {"SIGINT", "SIGTERM"}, fail \in FsFailures :
    /\ devServer.phase \in {"starting", "serving"}
    /\ devServer.signalsRegistered
    /\ cleanupOnClose(fail, "exiting", sig)
    /\ UNCHANGED <<detectorVars, probe>>

\* The process ends by itself: exit is emitted without a signal
NormalExit ==
  /\ devServer.phase \in {"starting", "serving"}
  /\ devServer.signalsRegistered
  /\ devServer' = [devServer EXCEPT !.phase = "exiting"]
  /\ UNCHANGED <<detectorVars, probe, muPlugins, themeVersion>>

\* The handler of exit: cleanupOnClose()
ExitHandler ==
  \E fail \in FsFailures :
    /\ devServer.phase = "exiting"
    /\ cleanupOnClose(fail, "ended", devServer.signal)
    /\ UNCHANGED <<detectorVars, probe>>

\* Somebody else adds or removes another entry of mu-plugins while the
\* dev server runs
OtherPluginsChange ==
  /\ devServer.phase \in {"starting", "serving"}
  /\ muPlugins.dir
  /\ muPlugins' = [muPlugins EXCEPT !.others = ~@]
  /\ UNCHANGED <<detectorVars, probe, devServer, themeVersion>>

CleanupNext ==
  \/ ConfigResolved
  \/ BuildStart
  \/ SelfDelete
  \/ Signal
  \/ NormalExit
  \/ ExitHandler
  \/ OtherPluginsChange

CleanupSpec == CleanupInit /\ [][CleanupNext]_vars

C19_ErrorLeavesMemoEmpty ==
  (/\ pc = "done"
   /\ entry.memo = NoValue
   /\ steps # <<>>
   /\ Last(steps) = "error") => cachedAssets = NoValue

ChosenSet(tree, folders, path) ==
  IF searchWithPreservedPath(tree, folders, path) # <<>>
  THEN searchWithPreservedPath(tree, folders, path)
  ELSE searchByFilename(tree, folders, path)

\* The combined score of candidate i against the artifact
ScoreOf(tree, path, c, i) ==
  calculateSimilarity(
    extractSignature(FileContent(tree, path), EndsWithJs(path.name)),
    extractSignature(FileContent(tree, c[i]), EndsWithJs(path.name)))

\* The artifact and every candidate can be read
AllReadable(tree, path, c) ==
  /\ ExistsSync(tree, path)
  /\ FileContent(tree, path).readable
  /\ \A i \in DOMAIN c : FileContent(tree, c[i]).readable

\* The indices of the candidates with the best combined score
BestIndices(tree, path, c) ==
  {i \in DOMAIN c :
     \A j \in DOMAIN c :
       ~RatioGreater(ScoreOf(tree, path, c, j), ScoreOf(tree, path, c, i))}

ContributingWeight(weight, arr1, arr2) ==
  IF arr1 = {} /\ arr2 = {} THEN 0 ELSE weight

\* The mean of three overlaps with the given weights, 0 when no weight is
\* left
MeanOver(stringSim, ws, numberSim, wn, third, wt) ==
  IF ws + wn + wt = 0 THEN Ratio(0, 1)
  ELSE Ratio(ws * stringSim.n * numberSim.d * third.d
               + wn * numberSim.n * stringSim.d * third.d
               + wt * third.n * stringSim.d * numberSim.d,
             (ws + wn + wt) * stringSim.d * numberSim.d * third.d)

\* The weighted mean of the Jaccard overlaps over the contributing fields
\* only: strings 0.4, numbers 0.2, selectors (when the first signature has
\* some) or apis 0.3
ContributingMean(sig1, sig2) ==
  LET third == IF sig1.selectors # {} THEN "selectors" ELSE "apis" IN
  MeanOver(compareArrays(sig1.strings, sig2.strings),
           ContributingWeight(4, sig1.strings, sig2.strings),
           compareArrays(sig1.numbers, sig2.numbers),
           ContributingWeight(2, sig1.numbers, sig2.numbers),
           compareArrays(sig1[third], sig2[third]),
           ContributingWeight(3, sig1[third], sig2[third]))

\* C22: for the artifact and every candidate of a findBySignature call,
\* calculateSimilarity is the weighted mean of the Jaccard overlaps over the
\* contributing fields, divided by the sum of the weights of those fields
\* only.
C22_MeanOverContributingFields ==
  (probe # NoValue /\ probe.fn = "findBySignature" /\ probe.done) =>
    \A i \in DOMAIN probe.candidates :
      LET sig1 == SignatureFor(sourceTree, probe.artifact, probe.artifact)
          sig2 == SignatureFor(sourceTree, probe.artifact, probe.candidates[i])
          got  == calculateSimilarity(sig1, sig2)
          want == ContributingMean(sig1, sig2)
      IN got.n * want.d = want.n * got.d

\* ------------------------------------------------------------------------
\* The classifier when the read fails (ClassifierSpec)

\* C23: for a file that exists and cannot be read, isLibrary answers what
\* the file-name test of the no-error path answers: Library exactly when
\* the path holds '.min.' and the base name is not main, style, admin or
\* editor.
C23_ReadErrorFallsBackToName ==
  (/\ probe # NoValue /\ probe.fn = "isLibrary" /\ probe.done
   /\ ExistsSync(sourceTree, probe.path)
   /\ ~FileContent(sourceTree, probe.path).readable) =>
     probe.out = (/\ HasMinMarker(probe.path)
                  /\ LibBaseName(probe.path) \notin KNOWN_SOURCES)

\* ------------------------------------------------------------------------
\* The argument the scan resolves (Spec)

\* C24: for every wp_register/enqueue_script or _style call of a hook
\* block of the scanned text, the expression handed to resolvePhpUrl is the
\* whole second argument of the call, nested function calls included.
C24_WholeArgumentResolved ==
  scanTree # NoValue =>
    \A call \in Range(RegistrationCalls(MergeTexts(allPhpContent))) :
      call.form \in {"script", "style"} =>
        CapturedArgument(call.url) = call.url

\* ------------------------------------------------------------------------
\* The entry a call writes and the files it read (Spec)

\* C25: the entry a call has written holds the hash of the registration
\* files as the scan of that call read them, whatever another process did
\* to these files between the read and the save.
C25_EntryHashOfScannedContent ==
  (/\ pc = "done"
   /\ steps # <<>>
   /\ Last(steps) = "save"
   /\ lastSaved # NoValue
   /\ lastSaved.wrote
   /\ cacheFile.kind = "json") =>
     cacheFile.value.hash = calculatePhpFilesHash(readFiles)

\* ------------------------------------------------------------------------
\* The removal of the previous build folder (Spec)

\* C26: the directory a call has removed is not the one the map of that
\* call names as its build folder, two names meaning the same directory
\* when they are equal without their leading slash.
C26_CurrentBuildFolderKept ==
  (/\ pc \in {"save", "done"}
   /\ Includes(steps, "delete")) =>
     CleanFolder(oldBuildFolder) # CleanFolder(result.buildFolder)

RollupFiles == {1, 2, 5, 6, 7, 8, 21}

\* Longest list of sources of the front context in these maps
MaxFrontSources == 2

\* The entry name of a source path: extension dropped, the last two parts
\* of the path when it has more than two, and for a .scss file a leading
\* source folder replaced by PATHS.assetFolders.css. The name is kept as
\* its parts instead of their join.
EntryName(path, folders) ==
  LET base == IF Len(path.name) >= 2 /\ Last(path.name) \in {"js", "ts", "scss", "css"}
              THEN Front(path.name) ELSE path.name
      kept == IF Len(path.dirs) + 1 > 2 THEN <<Last(path.dirs)>> ELSE path.dirs
  IN IF Last(path.name) = "scss" /\ kept # <<>> /\ kept[1] = path.dirs[1]
     THEN [dirs |-> folders.css, base |-> base]
     ELSE [dirs |-> kept, base |-> base]

\* inputs[name] = absolutePath over the paths in order: a name given twice
\* keeps the last path
Inputs(existing, folders) ==
  {[name |-> EntryName(existing[i], folders), path |-> existing[i]] :
     i \in {k \in DOMAIN existing :
              \A j \in (k + 1)..Len(existing) :
                EntryName(existing[j], folders) # EntryName(existing[k], folders)}}

\* [...new Set(allSources)]: the first occurrence of each path, order kept
UniqueSources(allSources) ==
  LET idx == SelectSeq([i \in DOMAIN allSources |-> i],
                       LAMBDA i : \A j \in 1..(i - 1) : allSources[j] # allSources[i])
  IN [k \in DOMAIN idx |-> allSources[idx[k]]]

generateRollupInputs(tree, folders, assets) ==
  Inputs(SelectSeq(UniqueSources(assets.front.sources \o assets.admin.sources
                                   \o assets.editor.sources),
                   LAMBDA p : ExistsSync(tree, p)),
         folders)

\* The lists of at most n distinct paths of the given files
SourceLists(files, n) ==
  {s \in UNION {[1..k -> {FileUniverse[i].path : i \in files}] : k \in 0..n} :
     \A i, j \in DOMAIN s : i # j => s[i] # s[j]}

RollupInit ==
  /\ DetectorAtRest
  /\ NoDevServer
  /\ sourceTree \in SUBSET RollupFiles
  /\ assetFolders \in AssetFolderConfigs
  /\ probe \in {[fn |-> "generateRollupInputs",
                 assets |-> [front  |-> [sources |-> f, libs |-> <<>>],
                             admin  |-> [sources |-> a, libs |-> <<>>],
                             editor |-> [sources |-> <<>>, libs |-> <<>>],
                             buildFolder |-> assetFolders.dist],
                 done |-> FALSE, out |-> {}] :
                  f \in SourceLists(RollupFiles, MaxFrontSources),
                  a \in SourceLists(RollupFiles, 1)}

\* generateRollupInputs(probe.assets)
CallGenerateRollupInputs ==
  /\ probe.fn = "generateRollupInputs"
  /\ ~probe.done
  /\ probe' = [probe EXCEPT
                 !.done = TRUE,
                 !.out = generateRollupInputs(sourceTree, assetFolders, probe.assets)]
  /\ UNCHANGED <<detectorVars, muPlugins, devServer, themeVersion>>

RollupNext == CallGenerateRollupInputs

RollupSpec == RollupInit /\ [][RollupNext]_vars

\* C28: generateRollupInputs gives as many inputs as the map holds distinct
\* source paths that exist on disk, over its three contexts.
C28_OneInputPerSource ==
  (probe # NoValue /\ probe.fn = "generateRollupInputs" /\ probe.done) =>
    Cardinality(probe.out)
      = Cardinality({p \in Range(probe.assets.front.sources)
                             \cup Range(probe.assets.admin.sources)
                             \cup Range(probe.assets.editor.sources) :
                       ExistsSync(sourceTree, p)})

\* ------------------------------------------------------------------------
\* The cache lookup and the source tree (Spec)

\* C29: a lookup that finds the registration files and the cache file as
\* the last save left them reuses the saved map, whatever has become of
\* the source tree since: getCachedAssets gives what it gave before the
\* tree changed.
C29_LookupIgnoresSourceTree ==
  (FreshCallAfterSave /\ entry.saved.wrote /\ pc # "idle") =>
    /\ persistentCache = entry.saved.assets
    /\ oldBuildFolder = NoValue
    /\ getCachedAssets(entry.php, entry.cache).assets = entry.saved.assets

\* C29 witness: the saved map is reused although a source it names is no
\* longer in the tree
C29_ReusedAfterSourceRemoved ==
  /\ FreshCallAfterSave
  /\ entry.saved.wrote
  /\ pc = "done"
  /\ persistentCache = entry.saved.assets
  /\ \E p \in Range(persistentCache.front.sources) : ~ExistsSync(sourceTree, p)

\* ------------------------------------------------------------------------
\* Once per process (CleanupSpec)

\* C30: in one process the handlers of SIGINT, SIGTERM and exit are
\* registered once at most, however often configResolved runs, and the
\* theme version is incremented once at most, and only when
\* AUTO_INCREMENT_VERSION is set, whatever signal and exit events follow.
C30_OncePerProcess ==
  /\ devServer.listeners <= 1
  /\ devServer.listeners = 1 <=> devServer.signalsRegistered
  /\ devServer.resolved >= 1 => devServer.listeners = 1
  /\ themeVersion <= 1
  /\ themeVersion = 1 <=> (devServer.versionIncremented /\ devServer.autoIncrement)
  /\ devServer.runs >= 1 => themeVersion = IF devServer.autoIncrement THEN 1 ELSE 0

\* C30 witness: configResolved ran twice, a signal handler and then the
\* exit handler ran the cleanup, and the version was incremented once
C30_TwoCleanupsOneIncrement ==
  /\ devServer # NoValue
  /\ devServer.phase = "ended"
  /\ devServer.resolved = 2
  /\ devServer.signal = "SIGTERM"
  /\ devServer.runs = 2
  /\ devServer.autoIncrement
  /\ themeVersion = 1
  /\ devServer.listeners = 1

====
